---- MODULE Spec2Model ----
(***************************************************************************)
(* Beacon: the scenario generator and validator (domain/environment/       *)
(* generator), the scenario hook (useScenario) and the simulation loops of *)
(* App (kinematics tick, detection tick, operator commands).               *)
(*                                                                         *)
(* Number representation.  The program computes in IEEE doubles; the model *)
(* computes in integers at a fixed resolution:                             *)
(*   lengths and coordinates   whole metres                                *)
(*   battery / return times    whole seconds (the program's minutes x 60)  *)
(*   frame delta dtSeconds     whole seconds                               *)
(*   boundsKm                  tenths of a kilometre (so x1000 is x100)    *)
(*   rng() in [0,1)            quarters: k in 0..3 stands for k/4          *)
(*   non-finite numbers        the value Infinity (an explicit tag)        *)
(* An optional JavaScript value is a sequence of length 0 (undefined /     *)
(* missing key) or 1 (present).  Template-literal ids are tuples.          *)
(***************************************************************************)
EXTENDS Integers, Sequences, FiniteSets, TLC

VARIABLES
    \* ---- generator harness (pure functions of generator.ts) ----
    gParams,        \* GeneratorParams under test
    gClock,         \* wall clock read by new Date()
    gFirst,         \* option: result of a first generateSector(gParams)
    gSecond,        \* option: result of a later generateSector(gParams)
    gPayload,       \* option: the payload last handed to validateScenario
    gValidated,     \* option: what validateScenario did with gPayload
    \* ---- planner harness (pure functions of voronoi.ts and planner.ts) ----
    pInput,         \* option: the arguments under test
    pOutput,        \* option: what the function under test returned for pInput
    \* ---- the operator session (App and useScenario) ----
    scenario,               \* useScenario: the current MaritimeScenario
    error,                  \* useScenario: option, the error banner
    drones,                 \* App: the roster, a sequence of DroneState
    selectedDroneIds,       \* useDroneSelection: the selected ids
    batteryWarningStateRef, \* App: id -> crossed thresholds and emergency flag
    detectionLog,           \* App: newest-first log entries
    scenarioRef,            \* App: the scenario as of the last effects flush
    dronesRef,              \* App: the roster as of the last effects flush
    lastFalseNegativeRef,   \* App: miss key -> check intervals since the miss
    lastFrameRef,           \* App: "null" before the first frame of a loop
    voronoiEnabled,         \* App: the partition overlay is on
    voronoiCells,           \* App: the stored Voronoi cells
    coveragePlans,          \* App: the stored coverage plans
    coverageActive,         \* App: coverage has been started
    droneIdCounter,         \* drone.ts: the module-level id counter
    emergencyActive,        \* history: drones a tick has sent home and not yet landed
    falsePositiveCount,     \* number of false positives synthesized so far
    missLogAge,             \* history: miss key -> check intervals since its last logged
                            \* miss (age) and between its last two logged misses (gap)
    lastOp,                 \* history: the kind of operation that produced this state
    commandCount,           \* history: operator commands issued so far
    detectionCount          \* history: firings of the detection interval so far

gvars == <<gParams, gClock, gFirst, gSecond, gPayload, gValidated>>

svars == <<scenario, error, drones, selectedDroneIds, batteryWarningStateRef,
           detectionLog, scenarioRef, dronesRef, lastFalseNegativeRef, lastFrameRef,
           droneIdCounter, falsePositiveCount, missLogAge, emergencyActive, lastOp>>

pvars == <<pInput, pOutput>>

cvars == <<voronoiEnabled, voronoiCells, coveragePlans, coverageActive>>

bvars == <<commandCount, detectionCount>>

vars == <<gvars, pvars, svars, cvars, bvars>>

(***************************************************************************)
(* Bounds of the model                                                     *)
(***************************************************************************)
MaxClock == 1

(***************************************************************************)
(* Small helpers                                                           *)
(***************************************************************************)
None == <<>>
Some(v) == <<v>>
IsSome(o) == Len(o) = 1
Get(o) == o[1]
OrElse(o, d) == IF Len(o) = 1 THEN o[1] ELSE d

Min(a, b) == IF a <= b THEN a ELSE b
Max(a, b) == IF a >= b THEN a ELSE b

\* Math.round of the rational a / b (b > 0, a >= 0): halves round up.
RoundDiv(a, b) == (2 * a + b) \div (2 * b)

\* A JavaScript value that is expected to be a number.
JsNumber(n) == [t |-> "number", v |-> n]
JsString == [t |-> "string", v |-> 0]
JsNull == [t |-> "null", v |-> 0]
JsUndefined == [t |-> "undefined", v |-> 0]

\* Number(v) followed by Number.isFinite: Number(undefined) is NaN, Number(null)
\* is 0, Number of the non-numeric string modelled by JsString is NaN.
NumberIsFinite(j) == j.t \in {"number", "null"}
NumberOf(j) == IF j.t = "number" THEN j.v ELSE 0

(***************************************************************************)
(* config/constants and config/anomalies                                   *)
(***************************************************************************)
droneHubExclusionRadiusMeters == 150
MinBoundsMeters == 100
HubSafeMarginMeters == 10
HubFallbackOffsetMeters == 5
MaxSampleAttempts == 32
MinDetectionRadiusMeters == 10

anomalyTypeOrder == <<"person-in-water", "lifeboat", "debris-field", "false-positive">>

AnomalyTypes == {anomalyTypeOrder[i] : i \in 1..Len(anomalyTypeOrder)}

defaultAnomalyConfig ==
    [t \in AnomalyTypes |->
        CASE t = "person-in-water" -> [count |-> 3, detectionRadiusMeters |-> 250]
          [] t = "lifeboat"        -> [count |-> 1, detectionRadiusMeters |-> 400]
          [] t = "debris-field"    -> [count |-> 2, detectionRadiusMeters |-> 300]
          [] OTHER                 -> [count |-> 1, detectionRadiusMeters |-> 180]]

(***************************************************************************)
(* seedrandom(key): a deterministic stream of values in [0,1), a function  *)
(* of the seed string only.  rng(key, i) is the i-th draw (i >= 0) of the  *)
(* stream seeded with key = <<seed, suffix>>, in quarters.  The seed "MID" *)
(* stands for a seed whose streams keep returning 0.5, the draws that the  *)
(* hub exclusion rejects.                                                  *)
(***************************************************************************)
SeedHash(seed) ==
    CASE seed = ""    -> 0
      [] seed = "A"   -> 1
      [] seed = "B"   -> 2
      [] OTHER        -> 3

SuffixHash(suffix) ==
    CASE suffix = ""           -> 0
      [] suffix = "-anomalies" -> 1
      [] OTHER                 -> 3

rng(key, i) ==
    IF key[1] = "MID" THEN 2
    ELSE (SeedHash(key[1]) * 3 + SuffixHash(key[2]) + i * (2 * SeedHash(key[1]) + 1) + (i \div 4)) % 4

\* Math.cos / Math.sin of rng() * 2 * PI for the four draws 0, 1/4, 1/2, 3/4.
CosQuarter(k) == CASE k = 0 -> 1 [] k = 1 -> 0 [] k = 2 -> -1 [] OTHER -> 0
SinQuarter(k) == CASE k = 0 -> 0 [] k = 1 -> 1 [] k = 2 -> 0 [] OTHER -> -1

(***************************************************************************)
(* generator.ts                                                            *)
(***************************************************************************)
clamp(value, min, max) == Min(max, Max(min, value))

\* lerp(a, b, t) for t = k/4, rounded by Math.round.
RoundLerp(a, b, k) == RoundDiv(4 * a + (b - a) * k, 4)

centerOfBounds(bounds) ==
    [x |-> bounds.origin.x + bounds.widthMeters \div 2,
     y |-> bounds.origin.y + bounds.heightMeters \div 2]

hubRadiusForBounds(bounds) ==
    LET maxRadius == Min(bounds.widthMeters, bounds.heightMeters) \div 2
        safeMargin == Max(maxRadius - HubSafeMarginMeters, 0)
    IN Max(0, Min(droneHubExclusionRadiusMeters, safeMargin))

droneHubFromBounds(bounds) ==
    [position |-> centerOfBounds(bounds), radius |-> hubRadiusForBounds(bounds)]

DistSq(p, q) == (p.x - q.x) * (p.x - q.x) + (p.y - q.y) * (p.y - q.y)

isInsideHubSafeZone(point, hub) ==
    hub.radius > 0 /\ DistSq(point, hub.position) <= hub.radius * hub.radius

\* One call of the sampler returned by createAnomalyPositionSampler, starting
\* at draw idx of the stream: the position and the index of the next draw.
RECURSIVE SampleAttempt(_, _, _, _, _)
SampleAttempt(bounds, hub, key, idx, attempt) ==
    IF attempt >= MaxSampleAttempts
    THEN LET angle == rng(key, idx)
             radius == IF hub.radius > 0 THEN hub.radius + HubFallbackOffsetMeters ELSE 0
             candidate == [x |-> hub.position.x + CosQuarter(angle) * radius,
                           y |-> hub.position.y + SinQuarter(angle) * radius]
         IN [position |->
                [x |-> clamp(candidate.x, bounds.origin.x, bounds.origin.x + bounds.widthMeters),
                 y |-> clamp(candidate.y, bounds.origin.y, bounds.origin.y + bounds.heightMeters)],
             next |-> idx + 1,
             fallback |-> TRUE]
    ELSE LET candidate == [x |-> bounds.origin.x + (rng(key, idx) * bounds.widthMeters) \div 4,
                           y |-> bounds.origin.y + (rng(key, idx + 1) * bounds.heightMeters) \div 4]
         IN IF ~isInsideHubSafeZone(candidate, hub)
            THEN [position |-> candidate, next |-> idx + 2, fallback |-> FALSE]
            ELSE SampleAttempt(bounds, hub, key, idx + 2, attempt + 1)

\* A sampler that returns its first candidate without testing the hub zone.
createAnomalyPositionSampler_FirstCandidate(sector, hub, key, idx) ==
    [position |-> [x |-> sector.bounds.origin.x + (rng(key, idx) * sector.bounds.widthMeters) \div 4,
                   y |-> sector.bounds.origin.y + (rng(key, idx + 1) * sector.bounds.heightMeters) \div 4],
     next |-> idx + 2,
     fallback |-> FALSE]

createAnomalyPositionSampler(sector, hub, key, idx) ==
    SampleAttempt(sector.bounds, hub, key, idx, 0)

normalizeAnomalyConfig(config) ==
    [t \in AnomalyTypes |->
        LET incoming == IF IsSome(config) THEN Get(config)[t] ELSE None
            count == IF IsSome(incoming) THEN OrElse(Get(incoming).count, defaultAnomalyConfig[t].count)
                     ELSE defaultAnomalyConfig[t].count
            radius == IF IsSome(incoming)
                      THEN OrElse(Get(incoming).detectionRadiusMeters, defaultAnomalyConfig[t].detectionRadiusMeters)
                      ELSE defaultAnomalyConfig[t].detectionRadiusMeters
        IN [count |-> Max(0, count),
            detectionRadiusMeters |-> Max(MinDetectionRadiusMeters, radius)]]

RECURSIVE SumCounts(_, _)
SumCounts(config, i) ==
    IF i > Len(anomalyTypeOrder) THEN 0
    ELSE config[anomalyTypeOrder[i]].count + SumCounts(config, i + 1)

totalAnomalyCount(config) == SumCounts(config, 1)

\* generateAnomalies: types in anomalyTypeOrder, count items per type, each
\* position drawn from the one stream seeded `${seed}-anomalies`.
RECURSIVE GenerateFrom(_, _, _, _, _, _, _)
GenerateFrom(sector, hub, key, config, ti, i, idx) ==
    IF ti > Len(anomalyTypeOrder) THEN <<>>
    ELSE LET type == anomalyTypeOrder[ti]
         IN IF i >= config[type].count
            THEN GenerateFrom(sector, hub, key, config, ti + 1, 0, idx)
            ELSE LET s == createAnomalyPositionSampler(sector, hub, key, idx)
                 IN <<[id |-> <<type, i + 1>>,
                       type |-> type,
                       position |-> s.position,
                       detected |-> FALSE,
                       detectionRadiusMeters |-> config[type].detectionRadiusMeters]>>
                    \o GenerateFrom(sector, hub, key, config, ti, i + 1, s.next)

generateAnomalies(sector, seed, config) ==
    GenerateFrom(sector, droneHubFromBounds(sector.bounds), <<seed, "-anomalies">>, config, 1, 0, 0)

ConditionDescriptions == 6

generateSector(params, clock) ==
    LET seed == params.seed
        key == <<seed, "">>
        widthMeters == Max(MinBoundsMeters, params.boundsKm.width * 100)
        heightMeters == Max(MinBoundsMeters, params.boundsKm.height * 100)
        originPoint == OrElse(params.origin, [x |-> -(widthMeters \div 2), y |-> -(heightMeters \div 2)])
        conditions == [seaState |-> clamp(RoundLerp(1, 6, rng(key, 0)), 0, 9),
                       windKts |-> RoundLerp(3, 38, rng(key, 1)),
                       visibilityKm |-> RoundLerp(4, 30, rng(key, 2)),
                       surfaceTempC |-> RoundLerp(12, 28, rng(key, 3)),
                       description |-> (rng(key, 4) * ConditionDescriptions) \div 4]
        bounds == [origin |-> originPoint, widthMeters |-> widthMeters, heightMeters |-> heightMeters]
        sector == [id |-> <<seed, widthMeters, heightMeters>>,
                   name |-> OrElse(params.name, "Sector"),
                   seed |-> seed,
                   bounds |-> bounds,
                   conditions |-> conditions,
                   createdAt |-> clock]
        normalizedAnomalies == normalizeAnomalyConfig(params.anomalyConfig)
    IN [version |-> 1,
        name |-> sector.name,
        seed |-> seed,
        sector |-> sector,
        anomalies |-> [config |-> normalizedAnomalies,
                       items |-> generateAnomalies(sector, seed, normalizedAnomalies)],
        metadata |-> Some([createdAt |-> sector.createdAt, notes |-> params.notes])]

(***************************************************************************)
(* JSON.parse(JSON.stringify(scenario)): every key whose value is          *)
(* undefined is dropped, every finite number is kept, and what comes back  *)
(* is an untyped payload: each field may be missing or of another type.    *)
(***************************************************************************)
ItemToJSON(item) ==
    [id |-> Some(item.id),
     type |-> item.type,
     position |-> [x |-> JsNumber(item.position.x), y |-> JsNumber(item.position.y)],
     detected |-> Some(item.detected),
     detectionRadiusMeters |-> Some(item.detectionRadiusMeters)]

ConfigToJSON(config) ==
    [t \in AnomalyTypes |->
        Some([count |-> Some(config[t].count),
              detectionRadiusMeters |-> Some(config[t].detectionRadiusMeters)])]

ToJSON(sc) ==
    [version |-> JsNumber(sc.version),
     name |-> Some(sc.name),
     seed |-> Some(sc.seed),
     sector |-> Some(
        [id |-> Some(sc.sector.id),
         name |-> Some(sc.sector.name),
         bounds |-> Some([origin |-> Some(sc.sector.bounds.origin),
                          widthMeters |-> JsNumber(sc.sector.bounds.widthMeters),
                          heightMeters |-> JsNumber(sc.sector.bounds.heightMeters)]),
         conditions |-> Some(sc.sector.conditions),
         createdAt |-> Some(sc.sector.createdAt)]),
     anomalies |-> [config |-> Some(ConfigToJSON(sc.anomalies.config)),
                    items |-> Some([i \in 1..Len(sc.anomalies.items) |->
                                        ItemToJSON(sc.anomalies.items[i])])],
     metadata |-> sc.metadata]

\* The sanitizing map of sanitizeAnomalyItems (lines 194-218): item k of the
\* payload list, with the sampler's stream at draw idx.  An item of unknown
\* type or non-finite position is dropped; a position is clamped to the
\* bounds and, inside the hub zone, replaced by a fresh sample.
RECURSIVE SanitizeFrom(_, _, _, _, _, _, _)
SanitizeFrom(payloadItems, sector, hub, key, config, k, idx) ==
    IF k > Len(payloadItems) THEN <<>>
    ELSE LET item == payloadItems[k]
         IN IF item.type \notin AnomalyTypes
               \/ ~NumberIsFinite(item.position.x) \/ ~NumberIsFinite(item.position.y)
            THEN SanitizeFrom(payloadItems, sector, hub, key, config, k + 1, idx)
            ELSE LET b == sector.bounds
                     candidate ==
                        [x |-> clamp(NumberOf(item.position.x), b.origin.x, b.origin.x + b.widthMeters),
                         y |-> clamp(NumberOf(item.position.y), b.origin.y, b.origin.y + b.heightMeters)]
                     inside == isInsideHubSafeZone(candidate, hub)
                     s == createAnomalyPositionSampler(sector, hub, key, idx)
                 IN <<[id |-> OrElse(item.id, <<item.type, k>>),
                       type |-> item.type,
                       position |-> IF inside THEN s.position ELSE candidate,
                       detected |-> OrElse(item.detected, FALSE),
                       detectionRadiusMeters |->
                           Max(MinDetectionRadiusMeters,
                               OrElse(item.detectionRadiusMeters, config[item.type].detectionRadiusMeters))]>>
                    \o SanitizeFrom(payloadItems, sector, hub, key, config, k + 1,
                                    IF inside THEN s.next ELSE idx)

SanitizedItems(payloadItems, sector, seed, config) ==
    IF IsSome(payloadItems)
    THEN SanitizeFrom(Get(payloadItems), sector, droneHubFromBounds(sector.bounds),
                      <<seed, "-anomalies-sanitize">>, config, 1, 0)
    ELSE <<>>

\* A sanitizer that keeps whatever survived the filter, whatever its length.
sanitizeAnomalyItems_KeepsLength(payloadItems, sector, seed, config) ==
    LET items == SanitizedItems(payloadItems, sector, seed, config)
    IN [i \in 1..Len(items) |->
            [items[i] EXCEPT !.detectionRadiusMeters =
                IF @ # 0 THEN @ ELSE config[items[i].type].detectionRadiusMeters]]

sanitizeAnomalyItems(payloadItems, sector, seed, config) ==
    LET items == SanitizedItems(payloadItems, sector, seed, config)
        expected == totalAnomalyCount(config)
    IN IF Len(items) # expected
       THEN generateAnomalies(sector, seed, config)
       ELSE [i \in 1..Len(items) |->
                [items[i] EXCEPT !.detectionRadiusMeters =
                    IF @ # 0 THEN @ ELSE config[items[i].type].detectionRadiusMeters]]

Rejected(msg) == [ok |-> FALSE, error |-> msg, scenario |-> None]

\* The structural checks of validateScenario after the version check: the
\* message of the first one that throws, "" when none does.
StructureError(payload) ==
    IF ~IsSome(payload.seed) \/ Get(payload.seed) = "" \/ ~IsSome(payload.sector)
    THEN "Scenario missing seed or sector definition"
    ELSE LET sector == Get(payload.sector)
         IN IF ~IsSome(sector.bounds) \/ Get(sector.bounds).widthMeters.t # "number"
               \/ Get(sector.bounds).heightMeters.t # "number"
            THEN "Sector bounds are invalid"
            ELSE IF ~IsSome(sector.conditions)
            THEN "Sector conditions are missing"
            ELSE ""

\* The scenario validateScenario returns once every check has passed.
NormalizedScenario(payload, clock) ==
    LET sector == Get(payload.sector)
        seed == Get(payload.seed)
        w == Get(sector.bounds).widthMeters.v
        h == Get(sector.bounds).heightMeters.v
        safeSector ==
           [id |-> OrElse(sector.id, <<seed, w, h>>),
            name |-> OrElse(sector.name, OrElse(payload.name, "Unnamed Sector")),
            seed |-> seed,
            bounds |-> [origin |-> OrElse(Get(sector.bounds).origin,
                                          [x |-> -(w \div 2), y |-> -(h \div 2)]),
                        widthMeters |-> w,
                        heightMeters |-> h],
            conditions |-> Get(sector.conditions),
            createdAt |-> OrElse(sector.createdAt, clock)]
        normalizedAnomalies == normalizeAnomalyConfig(payload.anomalies.config)
    IN [version |-> 1,
        name |-> OrElse(payload.name, safeSector.name),
        seed |-> seed,
        sector |-> safeSector,
        anomalies |-> [config |-> normalizedAnomalies,
                       items |-> sanitizeAnomalyItems(payload.anomalies.items, safeSector,
                                                      seed, normalizedAnomalies)],
        metadata |-> payload.metadata]

\* A validator that accepts any version field.
validateScenario_AnyVersion(payload, clock) ==
    IF StructureError(payload) # ""
    THEN Rejected(StructureError(payload))
    ELSE [ok |-> TRUE, error |-> "", scenario |-> Some(NormalizedScenario(payload, clock))]

validateScenario(payload, clock) ==
    IF ~(payload.version.t = "number" /\ payload.version.v = 1)
    THEN Rejected("Unsupported or missing scenario version")
    ELSE IF StructureError(payload) # ""
    THEN Rejected(StructureError(payload))
    ELSE [ok |-> TRUE, error |-> "", scenario |-> Some(NormalizedScenario(payload, clock))]

(***************************************************************************)
(* Payloads handed to validateScenario: the JSON of a generated scenario,  *)
(* as written by scenarioToJSON, or that JSON edited in one place.         *)
(***************************************************************************)
Mutations ==
    {"none", "version2", "versionString", "versionMissing", "seedMissing",
     "sectorMissing", "boundsMissing", "widthString", "heightMissing",
     "conditionsMissing", "originMissing", "configMissing", "itemsMissing",
     "itemDropped", "itemExtra", "itemBadType", "itemNaN", "itemInHub",
     "itemOutOfBounds", "itemDetected", "boundsShrunk"}

EditFirstItem(items, f(_)) ==
    IF IsSome(items) /\ Len(Get(items)) > 0
    THEN Some([Get(items) EXCEPT ![1] = f(@)])
    ELSE items

EditSector(payload, f(_)) == [payload EXCEPT !.sector = Some(f(Get(@)))]

EditBounds(payload, f(_)) ==
    LET G(sector) == [sector EXCEPT !.bounds = Some(f(Get(@)))]
    IN EditSector(payload, G)

EditItems(payload, items) == [payload EXCEPT !.anomalies.items = items]

PayloadOf(json, mutation) ==
    LET items == json.anomalies.items
        bounds == Get(Get(json.sector).bounds)
        hub == [x |-> Get(bounds.origin).x + bounds.widthMeters.v \div 2,
                y |-> Get(bounds.origin).y + bounds.heightMeters.v \div 2]
        NoBounds(s) == [s EXCEPT !.bounds = None]
        NoConditions(s) == [s EXCEPT !.conditions = None]
        WidthString(b) == [b EXCEPT !.widthMeters = JsString]
        HeightMissing(b) == [b EXCEPT !.heightMeters = JsUndefined]
        OriginMissing(b) == [b EXCEPT !.origin = None]
        Shrunk(b) == [b EXCEPT !.widthMeters = JsNumber(20), !.heightMeters = JsNumber(20)]
        BadType(i) == [i EXCEPT !.type = "sea-monster"]
        NaNPos(i) == [i EXCEPT !.position.x = JsString]
        InHub(i) == [i EXCEPT !.position = [x |-> JsNumber(hub.x), y |-> JsNumber(hub.y)]]
        OutOfBounds(i) == [i EXCEPT !.position.x = JsNumber(Get(bounds.origin).x - 1000)]
        Detected(i) == [i EXCEPT !.detected = Some(TRUE)]
        extra == [id |-> None, type |-> "debris-field",
                  position |-> [x |-> JsNumber(Get(bounds.origin).x), y |-> JsNull],
                  detected |-> None, detectionRadiusMeters |-> None]
    IN CASE mutation = "version2"          -> [json EXCEPT !.version = JsNumber(2)]
         [] mutation = "versionString"     -> [json EXCEPT !.version = JsString]
         [] mutation = "versionMissing"    -> [json EXCEPT !.version = JsUndefined]
         [] mutation = "seedMissing"       -> [json EXCEPT !.seed = None]
         [] mutation = "sectorMissing"     -> [json EXCEPT !.sector = None]
         [] mutation = "boundsMissing"     -> EditSector(json, NoBounds)
         [] mutation = "widthString"       -> EditBounds(json, WidthString)
         [] mutation = "heightMissing"     -> EditBounds(json, HeightMissing)
         [] mutation = "conditionsMissing" -> EditSector(json, NoConditions)
         [] mutation = "originMissing"     -> EditBounds(json, OriginMissing)
         [] mutation = "boundsShrunk"      -> EditBounds(json, Shrunk)
         [] mutation = "configMissing"     -> [json EXCEPT !.anomalies.config = None]
         [] mutation = "itemsMissing"      -> EditItems(json, None)
         [] mutation = "itemDropped"       ->
                EditItems(json, IF Len(Get(items)) > 0
                                THEN Some(SubSeq(Get(items), 1, Len(Get(items)) - 1))
                                ELSE items)
         [] mutation = "itemExtra"         -> EditItems(json, Some(Append(Get(items), extra)))
         [] mutation = "itemBadType"       -> EditItems(json, EditFirstItem(items, BadType))
         [] mutation = "itemNaN"           -> EditItems(json, EditFirstItem(items, NaNPos))
         [] mutation = "itemInHub"         -> EditItems(json, EditFirstItem(items, InHub))
         [] mutation = "itemOutOfBounds"   -> EditItems(json, EditFirstItem(items, OutOfBounds))
         [] mutation = "itemDetected"      -> EditItems(json, EditFirstItem(items, Detected))
         [] OTHER                          -> json

(***************************************************************************)
(* App: the drone roster and the kinematics loop                           *)
(*                                                                         *)
(* Times of the roster are whole seconds: batteryLifeMinutes,              *)
(* batteryMinutesRemaining, returnMinutesRequired and                      *)
(* emergencyReserveMinutes hold the program's minutes times 60.  A speed   *)
(* in knots is a whole number; metres per second is knots x 0.5144.        *)
(* headingDeg, callsign and lastUpdate are presentation only and are left  *)
(* out of the records, and so is the status line (setMessage).             *)
(***************************************************************************)
droneHubReturnReserveMinutes == 5 * 60

\* config/constants exports these two; the repository snapshot does not hold
\* their values.
batteryEmergencyBufferMinutes == 2 * 60
batteryWarningThresholds == <<50, 20>>

droneModels ==
    <<[id |-> "mavic3",     speedKts |-> 23, batteryLifeMinutes |-> 46 * 60],
      [id |-> "mavic3t",    speedKts |-> 19, batteryLifeMinutes |-> 45 * 60],
      [id |-> "phantom4",   speedKts |-> 16, batteryLifeMinutes |-> 30 * 60],
      [id |-> "matrice30",  speedKts |-> 23, batteryLifeMinutes |-> 41 * 60],
      [id |-> "matrice300", speedKts |-> 19, batteryLifeMinutes |-> 55 * 60],
      [id |-> "anafiusa",   speedKts |-> 15, batteryLifeMinutes |-> 32 * 60],
      [id |-> "skydio2",    speedKts |-> 18, batteryLifeMinutes |-> 27 * 60],
      [id |-> "wingtraone", speedKts |-> 39, batteryLifeMinutes |-> 59 * 60],
      [id |-> "custom12",   speedKts |-> 12, batteryLifeMinutes |-> 25 * 60]>>

defaultSensorConfig ==
    [rangeMeters |-> 450, checkIntervalMs |-> 600, logLimit |-> 150]

\* 0.514444 m/s per knot, in ten-thousandths.
KnotsToMetresPerSecond == 5144
SpeedScale == 10000

Infinity == [t |-> "Infinity", v |-> 0]

Abs(a) == IF a >= 0 THEN a ELSE -a

\* A step that does not advance.
TruncDiv_Stalls(a, b) == 0

\* Division that truncates toward zero, as a double's integer part does.
TruncDiv(a, b) == IF a >= 0 THEN a \div b ELSE -((-a) \div b)

\* The least r in lo..hi with r * r >= n.
RECURSIVE CeilSqrtIn(_, _, _)
CeilSqrtIn(n, lo, hi) ==
    IF lo >= hi THEN hi
    ELSE CHOOSE r \in {IF t.mid * t.mid >= t.n THEN CeilSqrtIn(t.n, t.lo, t.mid)
                                               ELSE CeilSqrtIn(t.n, t.mid + 1, t.hi) :
                        t \in {[n |-> n, lo |-> lo, mid |-> (lo + hi) \div 2, hi |-> hi]}} : TRUE

\* Math.hypot(dx, dy) in whole metres, rounded up.
Hypot(dx, dy) == CeilSqrtIn(dx * dx + dy * dy, 0, Abs(dx) + Abs(dy))

\* App's hub memo: the hub of the current sector bounds.
currentHub == droneHubFromBounds(scenario.sector.bounds)

clampToBounds(pos, bounds) ==
    [x |-> Min(Max(pos.x, bounds.origin.x), bounds.origin.x + bounds.widthMeters),
     y |-> Min(Max(pos.y, bounds.origin.y), bounds.origin.y + bounds.heightMeters)]

computeReturnMinutes(drone) ==
    IF Max(0, drone.speedKts) * KnotsToMetresPerSecond <= 1
    THEN Infinity
    ELSE JsNumber(RoundDiv(Hypot(drone.position.x - drone.homePosition.x,
                                 drone.position.y - drone.homePosition.y) * SpeedScale,
                           drone.speedKts * KnotsToMetresPerSecond))

computeEmergencyReserve(drone) ==
    LET minutesToHub == computeReturnMinutes(drone)
    IN IF ~NumberIsFinite(minutesToHub)
       THEN droneHubReturnReserveMinutes
       ELSE Max(minutesToHub.v + batteryEmergencyBufferMinutes, droneHubReturnReserveMinutes)

\* An append that keeps everything.
appendLog_NoCap(entries, log) == entries \o log

appendLog(entries, log) ==
    LET next == entries \o log
    IN SubSeq(next, 1, Min(Len(next), defaultSensorConfig.logLimit))

LogEntry(kind, droneId, anomalyId, threshold) ==
    [kind |-> kind, droneId |-> droneId, anomalyId |-> anomalyId, threshold |-> threshold]

NoWarnings == [thresholds |-> {}, emergency |-> FALSE]

\* batteryWarningStateRef.current[id] ?? {thresholds: new Set(), emergency: false}
WarningStateOf(table, id) == IF id \in DOMAIN table THEN table[id] ELSE NoWarnings

\* A drain that goes on after landing.
DrainBattery_AlsoLanded(drone, dtSeconds) == Max(0, drone.batteryMinutesRemaining - dtSeconds)

\* A drain that is not floored at zero.
DrainBattery_NoFloor(drone, dtSeconds) ==
    drone.batteryMinutesRemaining - (IF drone.status # "landed" THEN dtSeconds ELSE 0)

\* Math.max(0, batteryMinutesRemaining - (stillFlying ? drainMinutes : 0))
DrainBattery(drone, dtSeconds) ==
    Max(0, drone.batteryMinutesRemaining - (IF drone.status # "landed" THEN dtSeconds ELSE 0))

\* An arrival test that never sees the hub.
atHub_Never(target, theHub) == FALSE

\* Math.hypot(target.x - hub.position.x, target.y - hub.position.y) < 1
atHub(target, theHub) == DistSq(target, theHub.position) = 0

\* The body of the updater the kinematics step hands to setDrones, for one
\* drone, from line 424 on: the record it returns, the warning state it
\* leaves in the table and the events it pushes.  theHub and bounds are the
\* hub and the clampToBounds of the closure the loop was registered with;
\* consts holds the battery and reserve figures of lines 417-423.
StepOutcome(drone, dtSeconds, theHub, bounds, warningState, consts) ==
    LET queue == drone.waypoints
        popped == drone.targetPosition = None /\ Len(queue) > 0
        target0 == IF popped THEN Some(Head(queue)) ELSE drone.targetPosition
        remainingQueue0 == IF popped THEN Tail(queue) ELSE queue
        stillFlying == drone.status # "landed"
        batteryMinutesRemaining == consts.batteryMinutesRemaining
        batteryPct == Max(0, Min(100, (batteryMinutesRemaining * 100) \div drone.batteryLifeMinutes))
        returnMinutesRequired == consts.returnMinutesRequired
        emergencyReserveMinutes == consts.emergencyReserveMinutes
        needsReturn == stillFlying /\ batteryMinutesRemaining <= emergencyReserveMinutes
        statusBase == IF needsReturn THEN "returning" ELSE drone.status
        crossed == IF stillFlying /\ target0 # None
                   THEN {i \in 1..Len(batteryWarningThresholds) :
                            /\ batteryWarningThresholds[i] \notin warningState.thresholds
                            /\ batteryMinutesRemaining * 100
                                 <= batteryWarningThresholds[i] * drone.batteryLifeMinutes}
                   ELSE {}
        emergencyFires == stillFlying /\ needsReturn /\ ~warningState.emergency
        warningEvents ==
            LET hit == SelectSeq([i \in 1..Len(batteryWarningThresholds) |-> i], LAMBDA i : i \in crossed)
            IN [k \in 1..Len(hit) |->
                    LogEntry("battery-warning", drone.id, <<>>, batteryWarningThresholds[hit[k]])]
        emergencyEvents ==
            IF emergencyFires THEN <<LogEntry("battery-emergency", drone.id, <<>>, 0)>> ELSE <<>>
        target == IF needsReturn THEN Some(theHub.position) ELSE target0
        remainingQueue == IF needsReturn THEN <<>> ELSE remainingQueue0
        refreshed == [drone EXCEPT !.batteryMinutesRemaining = batteryMinutesRemaining,
                                   !.batteryPct = batteryPct,
                                   !.returnMinutesRequired = returnMinutesRequired,
                                   !.emergencyReserveMinutes = emergencyReserveMinutes]
        enrouteStatus == IF needsReturn THEN "returning" ELSE "enroute"
        arrived ==
            IF Len(remainingQueue) > 0
            THEN [refreshed EXCEPT !.position = clampToBounds(Get(target), bounds),
                                   !.targetPosition = Some(Head(remainingQueue)),
                                   !.waypoints = Tail(remainingQueue),
                                   !.status = enrouteStatus]
            ELSE [refreshed EXCEPT !.position = clampToBounds(Get(target), bounds),
                                   !.targetPosition = None,
                                   !.waypoints = <<>>,
                                   !.status = IF atHub(Get(target), theHub) THEN "landed" ELSE "idle"]
        dx == Get(target).x - drone.position.x
        dy == Get(target).y - drone.position.y
        maxStep == (drone.speedKts * KnotsToMetresPerSecond * dtSeconds) \div SpeedScale
        distance == Hypot(dx, dy)
        nextPos == clampToBounds([x |-> drone.position.x + TruncDiv(dx * maxStep, distance),
                                  y |-> drone.position.y + TruncDiv(dy * maxStep, distance)], bounds)
        reached == maxStep * maxStep >= dx * dx + dy * dy \/ DistSq(Get(target), nextPos) = 0
        next ==
            IF target = None
            THEN [refreshed EXCEPT !.waypoints = remainingQueue, !.status = statusBase]
            ELSE IF drone.speedKts * KnotsToMetresPerSecond <= 0
            THEN [refreshed EXCEPT !.status = statusBase]
            ELSE IF dx * dx + dy * dy = 0
            THEN arrived
            ELSE IF drone.speedKts * KnotsToMetresPerSecond * dtSeconds <= 0
            THEN [refreshed EXCEPT !.status = statusBase]
            ELSE IF reached
            THEN arrived
            ELSE [refreshed EXCEPT !.position = nextPos,
                                   !.status = enrouteStatus,
                                   !.targetPosition = target,
                                   !.waypoints = remainingQueue]
    IN [drone |-> next,
        warningState |-> [thresholds |-> warningState.thresholds
                                           \cup {batteryWarningThresholds[i] : i \in crossed},
                          emergency |-> warningState.emergency \/ emergencyFires],
        events |-> warningEvents \o emergencyEvents,
        needsReturn |-> needsReturn]

\* The updater for one drone: the figures every branch uses are computed
\* once, as the code's consts are, and handed to the rest of the body.
StepDrone(drone, dtSeconds, theHub, bounds, warningState) ==
    CHOOSE outcome \in
        {StepOutcome(k.drone, k.dtSeconds, k.theHub, k.bounds, k.warningState, k) :
            k \in {[drone |-> drone, dtSeconds |-> dtSeconds, theHub |-> theHub,
                    bounds |-> bounds, warningState |-> warningState,
                    batteryMinutesRemaining |-> DrainBattery(drone, dtSeconds),
                    returnMinutesRequired |-> computeReturnMinutes(drone),
                    emergencyReserveMinutes |-> computeEmergencyReserve(drone)]}} : TRUE

Entry(count, radius) == Some([count |-> count, detectionRadiusMeters |-> radius])

(***************************************************************************)
(* Bounds and inputs of the session                                        *)
(***************************************************************************)
MaxSpawns == 1
MaxCommands == 3
MaxDetectionTicks == 1
MaxQueue == 1
MaxFalsePositives == 1

defaultSeed == "BEACON-SEA-001"
defaultBoundsKm == [width |-> 5 * 10, height |-> 5 * 10]

SessionParams ==
    {[seed |-> "A", boundsKm |-> [width |-> 1, height |-> 1], origin |-> None, name |-> None,
      notes |-> None,
      anomalyConfig |-> Some([t \in AnomalyTypes |->
                                IF t = "person-in-water" THEN Entry(Some(1), Some(50))
                                ELSE Entry(Some(0), Some(120))])]}

\* What a chosen file holds: text that JSON.parse rejects (None) or a payload.
LoadInputs ==
    {None} \cup {Some(PayloadOf(ToJSON(generateSector(p, 0)), m)) :
                    p \in SessionParams, m \in {"none", "version2"}}

SpawnModelInputs == {"custom12"}
SpawnPointInputs == {"center", "northwest"}
SpeedInputs == {0, 12}
DtValues == {300}
WaypointInputs == {[x |-> 1250, y |-> 1250], [x |-> -9000, y |-> 0]}
DragInputs == {[x |-> 0, y |-> 9000]}
ToggleInputs == {<<"person-in-water", 1>>}

(***************************************************************************)
(* App: operator commands                                                  *)
(***************************************************************************)
DroneIds == {drones[i].id : i \in 1..Len(drones)}

ModelById(modelId) ==
    LET found == SelectSeq(droneModels, LAMBDA m : m.id = modelId)
    IN IF Len(found) > 0 THEN found[1] ELSE droneModels[1]

spawnPoints(bounds) ==
    LET margin == Max((Min(bounds.widthMeters, bounds.heightMeters) * 5) \div 100, 50)
        x0 == bounds.origin.x
        y0 == bounds.origin.y
    IN [id \in {"center", "northwest", "northeast", "southwest", "southeast"} |->
          CASE id = "center"    -> droneHubFromBounds(bounds).position
            [] id = "northwest" -> [x |-> x0 + margin, y |-> y0 + bounds.heightMeters - margin]
            [] id = "northeast" -> [x |-> x0 + bounds.widthMeters - margin,
                                    y |-> y0 + bounds.heightMeters - margin]
            [] id = "southwest" -> [x |-> x0 + margin, y |-> y0 + margin]
            [] OTHER            -> [x |-> x0 + bounds.widthMeters - margin, y |-> y0 + margin]]

\* The passive effects of App.  A commit made from a click handler runs them
\* before the handler's caller returns; a commit made from an animation
\* frame, a timer or a promise continuation leaves them pending: the refs
\* and the closures of the two loops then still hold the state of the commit
\* before, until the effects are flushed.  Re-registering the kinematics
\* loop (its clampToBounds or hub changed) resets lastFrameRef.
FrameAfterFlush(nextScenario) ==
    IF scenarioRef.sector # nextScenario.sector THEN "null" ELSE lastFrameRef

\* The refs and the loop after a commit made by a click handler.
EffectsRun ==
    /\ scenarioRef' = scenario'
    /\ dronesRef' = drones'
    /\ lastFrameRef' = IF scenario'.sector # scenario.sector THEN "null"
                       ELSE FrameAfterFlush(scenario)

\* The refs and the loop after a commit made outside a click handler: the
\* effects of the commits before have run, those of this one are pending.
EffectsPending ==
    /\ scenarioRef' = scenario
    /\ dronesRef' = drones

handleSpawnDrone(modelId, spawnPointId) ==
    /\ LET model == ModelById(modelId)
           bounds == scenario.sector.bounds
           newDrone == [id |-> droneIdCounter + 1,
                        position |-> clampToBounds(spawnPoints(bounds)[spawnPointId], bounds),
                        status |-> "idle",
                        speedKts |-> model.speedKts,
                        batteryPct |-> 100,
                        batteryLifeMinutes |-> model.batteryLifeMinutes,
                        batteryMinutesRemaining |-> model.batteryLifeMinutes,
                        homePosition |-> currentHub.position,
                        targetPosition |-> None,
                        waypoints |-> <<>>,
                        returnMinutesRequired |-> JsNumber(0),
                        emergencyReserveMinutes |-> 0]
           hydrated == [newDrone EXCEPT !.returnMinutesRequired = computeReturnMinutes(newDrone),
                                        !.emergencyReserveMinutes = computeEmergencyReserve(newDrone)]
       IN /\ drones' = Append(drones, hydrated)
          /\ batteryWarningStateRef' =
                [id \in DOMAIN batteryWarningStateRef \cup {hydrated.id} |->
                    IF id = hydrated.id THEN NoWarnings ELSE batteryWarningStateRef[id]]
          /\ selectedDroneIds' = {hydrated.id}
    /\ droneIdCounter' = droneIdCounter + 1
    /\ lastOp' = "spawn"
    /\ UNCHANGED <<scenario, error, detectionLog, lastFalseNegativeRef, falsePositiveCount, missLogAge,
                   emergencyActive>>
    /\ EffectsRun

\* An updater that queues an appended point ahead of the waypoints waiting.
SetWaypointRoster_Prepends(prev, ids, clampedPoint, append) ==
    [i \in 1..Len(prev) |->
        LET drone == prev[i]
            updatedQueue == <<clampedPoint>> \o drone.waypoints
        IN IF drone.id \notin ids THEN drone
           ELSE IF append
           THEN IF drone.targetPosition # None
                THEN [drone EXCEPT !.waypoints = updatedQueue]
                ELSE [drone EXCEPT !.targetPosition = Some(Head(updatedQueue)),
                                   !.waypoints = Tail(updatedQueue),
                                   !.status = "enroute"]
           ELSE [drone EXCEPT !.targetPosition = Some(clampedPoint),
                              !.waypoints = <<>>,
                              !.status = "enroute"]]

\* An updater that re-targets every drone of the roster.
SetWaypointRoster_AllDrones(prev, ids, clampedPoint, append) ==
    [i \in 1..Len(prev) |->
        IF append THEN [prev[i] EXCEPT !.waypoints = Append(@, clampedPoint)]
        ELSE [prev[i] EXCEPT !.targetPosition = Some(clampedPoint),
                             !.waypoints = <<>>,
                             !.status = "enroute"]]

\* The roster the updater of handleSetWaypoint returns.
SetWaypointRoster(prev, ids, clampedPoint, append) ==
    [i \in 1..Len(prev) |->
        LET drone == prev[i]
            updatedQueue == Append(drone.waypoints, clampedPoint)
        IN IF drone.id \notin ids THEN drone
           ELSE IF append
           THEN IF drone.targetPosition # None
                THEN [drone EXCEPT !.waypoints = updatedQueue]
                ELSE [drone EXCEPT !.targetPosition = Some(Head(updatedQueue)),
                                   !.waypoints = Tail(updatedQueue),
                                   !.status = "enroute"]
           ELSE [drone EXCEPT !.targetPosition = Some(clampedPoint),
                              !.waypoints = <<>>,
                              !.status = "enroute"]]

handleSetWaypoint(point, append) ==
    /\ drones' = IF selectedDroneIds = {} THEN drones
                 ELSE SetWaypointRoster(drones, selectedDroneIds,
                                        clampToBounds(point, scenario.sector.bounds), append)
    /\ lastOp' = IF append THEN "appendWaypoint" ELSE "setWaypoint"
    /\ UNCHANGED <<scenario, error, selectedDroneIds, batteryWarningStateRef,
                   detectionLog, lastFalseNegativeRef, droneIdCounter, falsePositiveCount, missLogAge,
                   emergencyActive>>
    /\ EffectsRun

\* selectedDroneIds.length > 0 ? selectedDroneIds : drones.map((d) => d.id)
CommandIds == IF selectedDroneIds # {} THEN selectedDroneIds ELSE DroneIds

handleRTBImmediate ==
    /\ CommandIds # {}
    /\ drones' = [i \in 1..Len(drones) |->
            IF drones[i].id \notin CommandIds THEN drones[i]
            ELSE [drones[i] EXCEPT !.targetPosition = Some(currentHub.position),
                                   !.waypoints = <<>>,
                                   !.status = "returning"]]
    /\ lastOp' = "rtbImmediate"
    /\ UNCHANGED <<scenario, error, selectedDroneIds, batteryWarningStateRef, detectionLog,
                   lastFalseNegativeRef, droneIdCounter, falsePositiveCount, missLogAge, emergencyActive>>
    /\ EffectsRun

\* An updater that appends the hub whether or not it is queued already.
RTBAfterCompletionRoster_AlwaysAppends(prev, ids, theHub) ==
    [i \in 1..Len(prev) |->
        LET drone == prev[i]
            queue == Append(drone.targetPosition \o drone.waypoints, theHub.position)
        IN IF drone.id \notin ids THEN drone
           ELSE [drone EXCEPT !.targetPosition = Some(Head(queue)),
                              !.waypoints = Tail(queue),
                              !.status = IF drone.status = "returning" THEN "returning"
                                         ELSE "enroute"]]

\* The roster the updater of handleRTBAfterCompletion returns.
RTBAfterCompletionRoster(prev, ids, theHub) ==
    [i \in 1..Len(prev) |->
        LET drone == prev[i]
            existing == drone.targetPosition \o drone.waypoints
            hasHub == \E k \in 1..Len(existing) : DistSq(existing[k], theHub.position) = 0
            queue == IF hasHub THEN existing ELSE Append(existing, theHub.position)
        IN IF drone.id \notin ids THEN drone
           ELSE IF Len(queue) = 0
           THEN [drone EXCEPT !.targetPosition = Some(theHub.position),
                              !.waypoints = <<>>,
                              !.status = "returning"]
           ELSE [drone EXCEPT !.targetPosition = Some(Head(queue)),
                              !.waypoints = Tail(queue),
                              !.status = IF drone.status = "returning" THEN "returning"
                                         ELSE "enroute"]]

handleRTBAfterCompletion ==
    /\ CommandIds # {}
    /\ drones' = RTBAfterCompletionRoster(drones, CommandIds, currentHub)
    /\ lastOp' = "rtbAfter"
    /\ UNCHANGED <<scenario, error, selectedDroneIds, batteryWarningStateRef, detectionLog,
                   lastFalseNegativeRef, droneIdCounter, falsePositiveCount, missLogAge, emergencyActive>>
    /\ EffectsRun

handleDronePositionChange(id, position) ==
    /\ id \in DroneIds
    /\ drones' = [i \in 1..Len(drones) |->
            IF drones[i].id # id THEN drones[i]
            ELSE [drones[i] EXCEPT !.position = clampToBounds(position, scenario.sector.bounds),
                                   !.targetPosition = None,
                                   !.status = "idle"]]
    /\ emergencyActive' = emergencyActive \ {id}
    /\ lastOp' = "command"
    /\ UNCHANGED <<scenario, error, selectedDroneIds, batteryWarningStateRef,
                   detectionLog, lastFalseNegativeRef, droneIdCounter, falsePositiveCount, missLogAge>>
    /\ EffectsRun

handleDroneSpeedChange(id, speedKts) ==
    /\ id \in DroneIds
    /\ drones' = [i \in 1..Len(drones) |->
            IF drones[i].id # id THEN drones[i] ELSE [drones[i] EXCEPT !.speedKts = speedKts]]
    /\ lastOp' = "command"
    /\ UNCHANGED <<scenario, error, selectedDroneIds, batteryWarningStateRef,
                   detectionLog, lastFalseNegativeRef, droneIdCounter, falsePositiveCount, missLogAge,
                   emergencyActive>>
    /\ EffectsRun

\* useDroneSelection.applySelection(ids, "replace"); no ids clears.
applySelection(ids) ==
    /\ ids # selectedDroneIds
    /\ selectedDroneIds' = ids
    /\ lastOp' = "command"
    /\ scenarioRef' = scenario
    /\ dronesRef' = drones
    /\ lastFrameRef' = FrameAfterFlush(scenario)
    /\ UNCHANGED <<scenario, error, drones, batteryWarningStateRef, detectionLog,
                   lastFalseNegativeRef, droneIdCounter, falsePositiveCount, missLogAge, emergencyActive>>

(***************************************************************************)
(* useScenario: generate, load, toggle                                     *)
(***************************************************************************)
\* A complete AnomalySettings handed over as GeneratorParams.anomalyConfig.
AsParams(config) ==
    Some([t \in AnomalyTypes |-> Entry(Some(config[t].count),
                                       Some(config[t].detectionRadiusMeters))])

initialScenario ==
    generateSector([seed |-> defaultSeed, boundsKm |-> defaultBoundsKm, origin |-> None,
                    name |-> None, notes |-> None,
                    anomalyConfig |-> AsParams(defaultAnomalyConfig)], 0)

EmptyTable == [id \in {} |-> NoWarnings]

\* A reset that leaves the battery-warning table as it is.
applyScenario_KeepsWarnings(next) ==
    /\ scenario' = next
    /\ drones' = <<>>
    /\ UNCHANGED batteryWarningStateRef
    /\ selectedDroneIds' = {}
    /\ error' = None
    /\ emergencyActive' = {}

\* applyScenario(next, msg) with onScenarioReset = resetDrones.
applyScenario(next) ==
    /\ scenario' = next
    /\ drones' = <<>>
    /\ batteryWarningStateRef' = EmptyTable
    /\ selectedDroneIds' = {}
    /\ error' = None
    /\ emergencyActive' = {}

handleGenerate(params) ==
    /\ applyScenario(generateSector(params, 0))
    /\ lastOp' = "generate"
    /\ scenarioRef' = scenario'
    /\ dronesRef' = drones'
    /\ lastFrameRef' = "null"
    /\ UNCHANGED <<detectionLog, lastFalseNegativeRef, droneIdCounter, falsePositiveCount, missLogAge>>

\* randomSeed(): "SEA-" and five drawn characters.
RandomSeedInputs == {"B"}

\* regenerate(randomSeed(), {width, height}) with the form's bounds and config.
handleRandomSeed(params, drawn) ==
    /\ applyScenario(generateSector([params EXCEPT !.seed = drawn], 0))
    /\ lastOp' = "generate"
    /\ scenarioRef' = scenario'
    /\ dronesRef' = drones'
    /\ lastFrameRef' = "null"
    /\ UNCHANGED <<detectionLog, lastFalseNegativeRef, droneIdCounter, falsePositiveCount, missLogAge>>

\* scenarios/index: each preset is validateScenario(<preset file>).  The two
\* preset files are not part of the repository snapshot; a preset here is
\* what validateScenario returns for a scenario file the generator could
\* have written.
scenarioPresets ==
    [id \in {"calm-bay", "rough-sea"} |->
        validateScenario(
            PayloadOf(ToJSON(generateSector(
                [seed |-> IF id = "calm-bay" THEN "A" ELSE "B",
                 boundsKm |-> [width |-> 2, height |-> 1], origin |-> None, name |-> None,
                 notes |-> None,
                 anomalyConfig |-> Some([t \in AnomalyTypes |->
                                           IF t = "lifeboat" THEN Entry(Some(1), Some(80))
                                           ELSE Entry(Some(0), Some(120))])], 0)), "none"), 0)]

getPresetById(id) ==
    IF id \in DOMAIN scenarioPresets THEN scenarioPresets[id].scenario ELSE None

PresetInputs == {"calm-bay", "storm"}

applyPreset(id) ==
    /\ IF getPresetById(id) = None
       THEN UNCHANGED <<scenario, drones, batteryWarningStateRef, selectedDroneIds, error,
                        emergencyActive>>
       ELSE applyScenario(Get(getPresetById(id)))
    /\ lastOp' = IF getPresetById(id) = None THEN "command" ELSE "preset"
    /\ UNCHANGED <<detectionLog, lastFalseNegativeRef, droneIdCounter, falsePositiveCount, missLogAge>>
    /\ EffectsRun

\* A catch branch that also resets the roster.
loadFailed_ResetsRoster(msg) ==
    /\ error' = Some(msg)
    /\ lastOp' = "loadFailed"
    /\ drones' = <<>>
    /\ batteryWarningStateRef' = EmptyTable
    /\ selectedDroneIds' = {}
    /\ emergencyActive' = {}
    /\ UNCHANGED scenario

\* The catch branch of loadScenarioFile: setError and nothing else.
loadFailed(msg) ==
    /\ error' = Some(msg)
    /\ lastOp' = "loadFailed"
    /\ UNCHANGED <<scenario, drones, batteryWarningStateRef, selectedDroneIds, emergencyActive>>

\* readScenarioFile then applyScenario, or the catch branch.
loadScenarioFile(file) ==
    LET loaded == IF file = None THEN Rejected("Unexpected token")
                  ELSE validateScenario(Get(file), 0)
    IN /\ IF loaded.ok
          THEN /\ applyScenario(Get(loaded.scenario))
               /\ lastOp' = "loadOk"
          ELSE loadFailed(loaded.error)
       /\ EffectsPending
       /\ lastFrameRef' = FrameAfterFlush(scenario)
       /\ UNCHANGED <<detectionLog, lastFalseNegativeRef, droneIdCounter, falsePositiveCount, missLogAge>>

handleToggleAnomaly(id) ==
    /\ \E i \in 1..Len(scenario.anomalies.items) : scenario.anomalies.items[i].id = id
    /\ scenario' = [scenario EXCEPT !.anomalies.items =
            [i \in 1..Len(@) |-> IF @[i].id = id THEN [@[i] EXCEPT !.detected = ~@] ELSE @[i]]]
    /\ lastOp' = "command"
    /\ scenarioRef' = scenario'
    /\ dronesRef' = drones
    /\ lastFrameRef' = FrameAfterFlush(scenario)
    /\ UNCHANGED <<error, drones, selectedDroneIds, batteryWarningStateRef,
                   detectionLog, lastFalseNegativeRef, droneIdCounter, falsePositiveCount, missLogAge,
                   emergencyActive>>

\* The pending passive effects run.
flushEffects ==
    /\ scenarioRef # scenario \/ dronesRef # drones
    /\ scenarioRef' = scenario
    /\ dronesRef' = drones
    /\ lastFrameRef' = FrameAfterFlush(scenario)
    /\ lastOp' = "effects"
    /\ UNCHANGED <<scenario, error, drones, selectedDroneIds, batteryWarningStateRef,
                   detectionLog, lastFalseNegativeRef, droneIdCounter, falsePositiveCount, missLogAge,
                   emergencyActive>>

(***************************************************************************)
(* App: the kinematics loop                                                *)
(***************************************************************************)
RECURSIVE ConcatAll(_)
ConcatAll(seqs) == IF Len(seqs) = 0 THEN <<>> ELSE Head(seqs) \o ConcatAll(Tail(seqs))

(***************************************************************************)
(* components/canvas/voronoi and domain/coverage/planner                   *)
(*                                                                         *)
(* Sites, cell polygons, lanes and plan waypoints are in whole             *)
(* millimetres, so that the nudge of spreadCoincident (0.5 m at the least) *)
(* and half a sweep spacing are whole numbers.  The cosine and sine of the *)
(* nudge angles are in thousandths.  completenessPct of a plan is          *)
(* presentation only and is left out.                                      *)
(***************************************************************************)
ToMillis(p) == [x |-> p.x * 1000, y |-> p.y * 1000]
ToMetres(p) == [x |-> RoundDiv(p.x, 1000), y |-> RoundDiv(p.y, 1000)]

\* clampToBounds of voronoi.ts, on a point in millimetres.
clampSite(point, bounds) ==
    [x |-> Min(Max(point.x, bounds.origin.x * 1000),
               (bounds.origin.x + bounds.widthMeters) * 1000),
     y |-> Min(Max(point.y, bounds.origin.y * 1000),
               (bounds.origin.y + bounds.heightMeters) * 1000)]

\* <<cos, sin>> of 2 * pi * idx / count, idx = 0..count-1, in thousandths.
NudgeDirections(count) ==
    CASE count = 2 -> << <<1000, 0>>, <<-1000, 0>> >>
      [] count = 3 -> << <<1000, 0>>, <<-500, 866>>, <<-500, -866>> >>
      [] count = 4 -> << <<1000, 0>>, <<0, 1000>>, <<-1000, 0>>, <<0, -1000>> >>
      [] count = 5 -> << <<1000, 0>>, <<309, 951>>, <<-809, 588>>, <<-809, -588>>,
                         <<309, -951>> >>

\* Math.max(0.5, minDim * 0.001) metres, in millimetres.
NudgeRadius(bounds) == Max(500, Min(bounds.widthMeters, bounds.heightMeters))

\* points: a sequence of [drone, position]; groups keep the order in which
\* their first member appears (Object.values of string keys).
spreadCoincident(points, bounds) ==
    LET indices == [i \in 1..Len(points) |-> i]
        firsts == SelectSeq(indices, LAMBDA i :
                        \A j \in 1..(i - 1) : points[j].position # points[i].position)
        group(i) == SelectSeq(indices, LAMBDA k : points[k].position = points[i].position)
        radius == NudgeRadius(bounds)
        spread(i) ==
            LET items == group(i)
                count == Len(items)
                base == points[i].position
            IN IF count = 1 THEN <<points[i]>>
               ELSE [idx \in 1..count |->
                        [drone |-> points[items[idx]].drone,
                         position |-> clampSite(
                            [x |-> base.x + RoundDiv(NudgeDirections(count)[idx][1] * radius, 1000),
                             y |-> base.y + RoundDiv(NudgeDirections(count)[idx][2] * radius, 1000)],
                            bounds)]]
    IN ConcatAll([g \in 1..Len(firsts) |-> spread(firsts[g])])

\* The cells buildCells and rebalanceVoronoiAreas return.  The polygons are
\* computed by d3-delaunay, which is not part of the repository: the model
\* takes them to be equal strips of the sector along the axis cut, one per
\* site in the order of the sites, each with at least three corners.
buildCells(sites, bounds, cut) ==
    LET n == Len(sites)
        x0 == bounds.origin.x * 1000
        y0 == bounds.origin.y * 1000
        w == bounds.widthMeters * 1000
        h == bounds.heightMeters * 1000
        strip(k) ==
            IF cut = "x"
            THEN << [x |-> x0 + ((k - 1) * w) \div n, y |-> y0],
                    [x |-> x0 + (k * w) \div n, y |-> y0],
                    [x |-> x0 + (k * w) \div n, y |-> y0 + h],
                    [x |-> x0 + ((k - 1) * w) \div n, y |-> y0 + h] >>
            ELSE << [x |-> x0, y |-> y0 + ((k - 1) * h) \div n],
                    [x |-> x0 + w, y |-> y0 + ((k - 1) * h) \div n],
                    [x |-> x0 + w, y |-> y0 + (k * h) \div n],
                    [x |-> x0, y |-> y0 + (k * h) \div n] >>
    IN [k \in 1..n |-> [droneId |-> sites[k].drone, polygon |-> strip(k)]]

computeVoronoiCells(roster, bounds, selectedIds, cut) ==
    LET chosen == IF selectedIds # {}
                  THEN SelectSeq(roster, LAMBDA d : d.id \in selectedIds)
                  ELSE roster
        raw == [i \in 1..Len(chosen) |->
                    [drone |-> chosen[i].id,
                     position |-> clampSite(ToMillis(chosen[i].position), bounds)]]
        candidatesWithSpread == spreadCoincident(raw, bounds)
    IN IF Len(candidatesWithSpread) < 2 THEN <<>>
       ELSE buildCells(candidatesWithSpread, bounds, cut)

bbox(poly) ==
    LET xs == {poly[i].x : i \in 1..Len(poly)}
        ys == {poly[i].y : i \in 1..Len(poly)}
        minX == CHOOSE v \in xs : \A u \in xs : v <= u
        maxX == CHOOSE v \in xs : \A u \in xs : v >= u
        minY == CHOOSE v \in ys : \A u \in ys : v <= u
        maxY == CHOOSE v \in ys : \A u \in ys : v >= u
    IN [minX |-> minX, minY |-> minY, maxX |-> maxX, maxY |-> maxY,
        width |-> maxX - minX, height |-> maxY - minY]

\* a + t * (b - a) with t = num / den, den # 0.
Interpolate(a, b, num, den) ==
    IF den > 0 THEN a + RoundDiv(num * (b - a), den)
    ELSE a + RoundDiv((-num) * (b - a), -den)

intersectVertical(poly, x) ==
    ConcatAll([i \in 1..Len(poly) |->
        LET a == poly[i]
            b == poly[(i % Len(poly)) + 1]
        IN IF x < Min(a.x, b.x) \/ x > Max(a.x, b.x) \/ a.x = b.x THEN <<>>
           ELSE <<[x |-> x, y |-> Interpolate(a.y, b.y, x - a.x, b.x - a.x)]>>])

intersectHorizontal(poly, y) ==
    ConcatAll([i \in 1..Len(poly) |->
        LET a == poly[i]
            b == poly[(i % Len(poly)) + 1]
        IN IF y < Min(a.y, b.y) \/ y > Max(a.y, b.y) \/ a.y = b.y THEN <<>>
           ELSE <<[x |-> Interpolate(a.x, b.x, y - a.y, b.y - a.y), y |-> y]>>])

\* Array.prototype.sort with the comparator a.y - b.y (a.x - b.x): stable.
RECURSIVE SortHits(_, _)
SortHits(hits, byY) ==
    IF Len(hits) = 0 THEN <<>>
    ELSE LET sorted == SortHits(SubSeq(hits, 1, Len(hits) - 1), byY)
             last == hits[Len(hits)]
             k == Cardinality({i \in 1..Len(sorted) :
                        IF byY THEN sorted[i].y <= last.y ELSE sorted[i].x <= last.x})
         IN SubSeq(sorted, 1, k) \o <<last>> \o SubSeq(sorted, k + 1, Len(sorted))

\* The lanes of one sweep line: consecutive pairs of hits, every other lane
\* reversed.
PairLanes(hits, laneIndex) ==
    [k \in 1..(Len(hits) \div 2) |->
        LET forward == (laneIndex + k - 1) % 2 = 0
        IN [start |-> IF forward THEN hits[2 * k - 1] ELSE hits[2 * k],
            end |-> IF forward THEN hits[2 * k] ELSE hits[2 * k - 1]]]

\* The while loop of buildLanes from sweep position at on.
RECURSIVE SweepLanes(_, _, _, _, _, _)
SweepLanes(poly, spacing, vertical, at, limit, laneIndex) ==
    IF at > limit THEN <<>>
    ELSE LET hits == IF vertical THEN SortHits(intersectVertical(poly, at), TRUE)
                     ELSE SortHits(intersectHorizontal(poly, at), FALSE)
             lanes == PairLanes(hits, laneIndex)
         IN lanes \o SweepLanes(poly, spacing, vertical, at + spacing, limit,
                                laneIndex + Len(lanes))

\* The lanes of buildLanes when it sweeps vertical lines (vertical) or
\* horizontal lines.
LanesAlong(poly, spacing, vertical) ==
    LET box == bbox(poly)
    IN IF vertical
       THEN SweepLanes(poly, spacing, TRUE, box.minX + spacing \div 2, box.maxX, 0)
       ELSE SweepLanes(poly, spacing, FALSE, box.minY + spacing \div 2, box.maxY, 0)

buildLanes(poly, spacing) ==
    LET box == bbox(poly)
        sweepVertical == box.width >= box.height
    IN [lanes |-> LanesAlong(poly, spacing, sweepVertical), sweepVertical |-> sweepVertical]

lanesToWaypoints(lanes) ==
    ConcatAll([idx \in 1..Len(lanes) |->
        <<lanes[idx].start, lanes[idx].end>>
            \o (IF idx < Len(lanes) THEN <<lanes[idx].end, lanes[idx + 1].start>> ELSE <<>>)])

planCoveragePaths(cells, spacingMeters, overlapRatio) ==
    IF spacingMeters <= 0 THEN <<>>
    ELSE SelectSeq(
            [c \in 1..Len(cells) |->
                LET lanes == buildLanes(cells[c].polygon, spacingMeters).lanes
                IN [droneId |-> cells[c].droneId,
                    cellId |-> <<cells[c].droneId, "-cell">>,
                    polygon |-> cells[c].polygon,
                    spacingMeters |-> spacingMeters,
                    overlapRatio |-> overlapRatio,
                    lanes |-> lanes,
                    waypoints |-> lanesToWaypoints(lanes)]],
            LAMBDA plan : Len(plan.lanes) > 0 /\ Len(plan.waypoints) > 0)

(***************************************************************************)
(* App: coverage.  The sensor range and the sweep overlap keep their       *)
(* defaults.  The coveragePlan field handleStartCoverage attaches to a     *)
(* drone is read nowhere and is left out.                                  *)
(***************************************************************************)
\* useState(0.15), in percent.
coverageOverlap == 15

\* Math.max(5, Math.round(raw * 100) / 100) metres, in millimetres.
sweepSpacingMeters ==
    Max(5000, 10 * RoundDiv(defaultSensorConfig.rangeMeters * (100 - coverageOverlap) * 100, 100))

\* The polygon layouts the partition may return.
CutInputs == {"x", "y"}

coverageSourceCount ==
    IF selectedDroneIds # {}
    THEN Len(SelectSeq(drones, LAMBDA d : d.id \in selectedDroneIds))
    ELSE Len(drones)

recomputeVoronoi(cut) ==
    computeVoronoiCells(drones, scenario.sector.bounds, selectedDroneIds, cut)

computeCoveragePlans(cells) == planCoveragePaths(cells, sweepSpacingMeters, coverageOverlap)

\* The plans after the passive effect that follows a change of the cells,
\* of coverageActive or of voronoiEnabled.
CoverageEffect(active, enabled, cells, plans) ==
    IF ~active \/ ~enabled THEN plans ELSE computeCoveragePlans(cells)

handleRunVoronoi(cut) ==
    /\ IF coverageSourceCount < 2
       THEN /\ voronoiEnabled' = FALSE
            /\ voronoiCells' = <<>>
       ELSE /\ voronoiEnabled' = TRUE
            /\ voronoiCells' = recomputeVoronoi(cut)
    /\ coverageActive' = coverageActive
    /\ coveragePlans' = CoverageEffect(coverageActive', voronoiEnabled', voronoiCells',
                                       coveragePlans)
    /\ lastOp' = "runVoronoi"
    /\ UNCHANGED <<scenario, error, drones, selectedDroneIds, batteryWarningStateRef,
                   detectionLog, lastFalseNegativeRef, droneIdCounter, falsePositiveCount,
                   missLogAge, emergencyActive>>
    /\ EffectsRun

\* The button is disabled unless an overlay is shown.
handleClearVoronoi ==
    /\ voronoiEnabled
    /\ voronoiCells # <<>>
    /\ voronoiEnabled' = FALSE
    /\ voronoiCells' = <<>>
    /\ coveragePlans' = <<>>
    /\ coverageActive' = FALSE
    /\ lastOp' = "clearVoronoi"
    /\ UNCHANGED <<scenario, error, drones, selectedDroneIds, batteryWarningStateRef,
                   detectionLog, lastFalseNegativeRef, droneIdCounter, falsePositiveCount,
                   missLogAge, emergencyActive>>
    /\ EffectsRun

\* The updater of handleStartCoverage; plan waypoints are handed to the
\* drones at the resolution of the roster (whole metres).
StartCoverageRoster(prev, plans) ==
    [i \in 1..Len(prev) |->
        LET drone == prev[i]
            found == SelectSeq(plans, LAMBDA plan : plan.droneId = drone.id)
        IN IF Len(found) = 0 \/ Len(found[1].waypoints) = 0 THEN drone
           ELSE [drone EXCEPT
                    !.targetPosition = Some(ToMetres(Head(found[1].waypoints))),
                    !.waypoints = [k \in 1..(Len(found[1].waypoints) - 1) |->
                                        ToMetres(found[1].waypoints[k + 1])],
                    !.status = "search"]]

handleStartCoverage(cut) ==
    /\ LET cells == IF voronoiEnabled THEN voronoiCells ELSE recomputeVoronoi(cut)
           plans == computeCoveragePlans(cells)
       IN IF Len(cells) < 2 \/ Len(plans) = 0
          THEN /\ coverageActive' = FALSE
               /\ coveragePlans' = <<>>
               /\ voronoiCells' = cells
               /\ UNCHANGED <<voronoiEnabled, drones>>
          ELSE /\ voronoiEnabled' = TRUE
               /\ voronoiCells' = cells
               /\ coverageActive' = TRUE
               /\ coveragePlans' = CoverageEffect(TRUE, TRUE, cells, plans)
               /\ drones' = StartCoverageRoster(drones, plans)
    /\ lastOp' = "startCoverage"
    /\ UNCHANGED <<scenario, error, selectedDroneIds, batteryWarningStateRef,
                   detectionLog, lastFalseNegativeRef, droneIdCounter, falsePositiveCount,
                   missLogAge, emergencyActive>>
    /\ EffectsRun

\* One animation frame.  dtIn is the time since the frame before; eager
\* tells whether React ran the updater inside the setDrones call (the queue
\* of the component was empty) or later, while rendering: only in the first
\* case has the updater filled events by the time step tests events.length.
step(dtIn, eager) ==
    LET dtSeconds == IF lastFrameRef = "null" THEN 0 ELSE dtIn
        loopBounds == scenarioRef.sector.bounds
        updated == [i \in 1..Len(drones) |->
                    StepDrone(drones[i], dtSeconds, droneHubFromBounds(loopBounds), loopBounds,
                              WarningStateOf(batteryWarningStateRef, drones[i].id))]
    IN \E out \in {updated}, events \in {ConcatAll([i \in 1..Len(drones) |-> updated[i].events])} :
       /\ drones' = [i \in 1..Len(drones) |-> out[i].drone]
       /\ batteryWarningStateRef' =
            [id \in DOMAIN batteryWarningStateRef \cup DroneIds |->
                IF id \in DroneIds
                THEN out[CHOOSE i \in 1..Len(drones) : drones[i].id = id].warningState
                ELSE batteryWarningStateRef[id]]
       /\ IF eager /\ Len(events) > 0
          THEN detectionLog' = appendLog(events, detectionLog)
          ELSE UNCHANGED detectionLog
       /\ lastFalseNegativeRef' =
            IF dtSeconds * 1000 > 2 * defaultSensorConfig.checkIntervalMs
            THEN [k \in {} |-> 0] ELSE lastFalseNegativeRef
       /\ missLogAge' =
            IF dtSeconds * 1000 > 2 * defaultSensorConfig.checkIntervalMs
            THEN [k \in {} |-> 0] ELSE missLogAge
       /\ emergencyActive' =
            (emergencyActive \cup {drones[i].id : i \in {k \in 1..Len(drones) : out[k].needsReturn}})
                \ {out[i].drone.id : i \in {k \in 1..Len(drones) : out[k].drone.status = "landed"}}
       /\ lastFrameRef' = IF scenarioRef.sector # scenario.sector THEN "null" ELSE "set"
       /\ lastOp' = "step"
       /\ EffectsPending
       /\ UNCHANGED <<scenario, error, selectedDroneIds, droneIdCounter, falsePositiveCount>>

(***************************************************************************)
(* The state after construction                                            *)
(***************************************************************************)
GenIdle ==
    /\ gParams \in SessionParams
    /\ gClock = 0
    /\ gFirst = None
    /\ gSecond = None
    /\ gPayload = None
    /\ gValidated = None
    /\ pInput = None
    /\ pOutput = None

\* The session with an empty roster, log entries kept from before and
\* spawned drones so far: what mounting App gives for (<<>>, 0) and what a
\* Generate with the default form gives later in a session.
SessionAt(log, spawned) ==
    /\ scenario = initialScenario
    /\ error = None
    /\ drones = <<>>
    /\ selectedDroneIds = {}
    /\ batteryWarningStateRef = EmptyTable
    /\ detectionLog = log
    /\ voronoiEnabled = FALSE
    /\ voronoiCells = <<>>
    /\ coveragePlans = <<>>
    /\ coverageActive = FALSE
    /\ scenarioRef = initialScenario
    /\ dronesRef = <<>>
    /\ lastFalseNegativeRef = [k \in {} |-> 0]
    /\ lastFrameRef = "null"
    /\ droneIdCounter = spawned
    /\ falsePositiveCount = 0
    /\ missLogAge = [k \in {} |-> 0]
    /\ emergencyActive = {}
    /\ lastOp = "init"
    /\ commandCount = 0
    /\ detectionCount = 0

SessionStart == SessionAt(<<>>, 0)

(***************************************************************************)
(* The generator harness: generateSector and validateScenario applied to   *)
(* parameters drawn from bounded sets, at the moments a session offers.    *)
(***************************************************************************)
Seeds == {"", "A", "MID"}
BoundsKmValues == {0, 2, 4}

AnomalyConfigInputs ==
    {None,
     Some([t \in AnomalyTypes |-> IF t = "person-in-water" THEN Entry(Some(1), Some(5))
                                  ELSE Entry(Some(0), Some(120))]),
     Some([t \in AnomalyTypes |-> IF t = "lifeboat" THEN None
                                  ELSE IF t = "debris-field" THEN Entry(Some(2), None)
                                  ELSE Entry(Some(-1), Some(60))])}

GenParamSet ==
    [seed : Seeds,
     boundsKm : [width : BoundsKmValues, height : {1, 4}],
     origin : {None, Some([x |-> 0, y |-> 0])},
     name : {None},
     notes : {None},
     anomalyConfig : AnomalyConfigInputs]

GenInit ==
    /\ gParams \in GenParamSet
    /\ gClock = 0
    /\ gFirst = None
    /\ gSecond = None
    /\ gPayload = None
    /\ gValidated = None
    /\ pInput = None
    /\ pOutput = None
    /\ SessionStart

GenGenerate ==
    /\ gFirst = None
    /\ gFirst' = Some(generateSector(gParams, gClock))
    /\ UNCHANGED <<gParams, gClock, gSecond, gPayload, gValidated>>
    /\ UNCHANGED svars

GenGenerateAgain ==
    /\ gFirst # None
    /\ gSecond = None
    /\ gSecond' = Some(generateSector(gParams, gClock))
    /\ UNCHANGED <<gParams, gClock, gFirst, gPayload, gValidated>>
    /\ UNCHANGED svars

GenClockTick ==
    /\ gClock < MaxClock
    /\ gClock' = gClock + 1
    /\ UNCHANGED <<gParams, gFirst, gSecond, gPayload, gValidated>>
    /\ UNCHANGED svars

GenValidate(mutation) ==
    /\ gFirst # None
    /\ gValidated = None
    /\ gPayload' = Some(PayloadOf(ToJSON(Get(gFirst)), mutation))
    /\ gValidated' = Some(validateScenario(Get(gPayload'), gClock))
    /\ UNCHANGED <<gParams, gClock, gFirst, gSecond>>
    /\ UNCHANGED svars

GenNext ==
    /\ \/ GenGenerate
       \/ GenGenerateAgain
       \/ GenClockTick
       \/ \E mutation \in Mutations : GenValidate(mutation)
    /\ UNCHANGED <<pvars, cvars, bvars>>

GenSpec == GenInit /\ [][GenNext]_vars

(***************************************************************************)
(* App: the detection loop                                                 *)
(*                                                                         *)
(* lastFalseNegativeRef maps a miss key to the number of check intervals   *)
(* that have passed since the miss was logged; a key older than two        *)
(* intervals is dropped, which is what the test now - lastMiss >           *)
(* 2 * checkIntervalMs sees of it.                                         *)
(***************************************************************************)
LapseValues == {1, 3}
FalsePositiveOffsets == {[x |-> 400, y |-> 0]}

SensorRange == Max(10, defaultSensorConfig.rangeMeters)

\* The (drone, anomaly) index pairs the callback rolls for: those whose
\* distance does not exceed the range.
InRangePairs ==
    {p \in (1..Len(dronesRef)) \X (1..Len(scenarioRef.anomalies.items)) :
        DistSq(scenarioRef.anomalies.items[p[2]].position, dronesRef[p[1]].position)
            <= SensorRange * SensorRange}

\* One firing of the interval callback.  hits are the (drone, anomaly) pairs
\* whose roll is <= the confidence, falsePositives gives the drones whose
\* roll is below the false-positive chance and the offset each one draws,
\* lapse is the number of check intervals since the firing before.
detectionTick(hits, falsePositives, lapse) ==
    LET currentScenario == scenarioRef
        currentDrones == dronesRef
        items == currentScenario.anomalies.items
        loopBounds == scenarioRef.sector.bounds
        InRange(i, j) == <<i, j>> \in InRangePairs
        aged == [k \in {q \in DOMAIN lastFalseNegativeRef : lastFalseNegativeRef[q] + lapse <= 2} |->
                    lastFalseNegativeRef[k] + lapse]
        missKey(i, j) == <<currentDrones[i].id, items[j].id>>
        Hit(i, j) == InRange(i, j) /\ <<i, j>> \in hits /\ ~items[j].detected
        Miss(i, j) == /\ InRange(i, j) /\ <<i, j>> \notin hits /\ ~items[j].detected
                      /\ missKey(i, j) \notin DOMAIN aged
        fpIndex(i) == falsePositiveCount + Cardinality({k \in DOMAIN falsePositives : k <= i})
        fpItem(i) ==
            [id |-> <<"fp", fpIndex(i)>>,
             type |-> "false-positive",
             position |-> clampToBounds(
                 [x |-> currentDrones[i].position.x + falsePositives[i].x,
                  y |-> currentDrones[i].position.y + falsePositives[i].y], loopBounds),
             detected |-> TRUE,
             detectionRadiusMeters |->
                 currentScenario.anomalies.config["false-positive"].detectionRadiusMeters]
        anomalyEvents(i) ==
            ConcatAll([j \in 1..Len(items) |->
                IF Hit(i, j)
                THEN <<LogEntry("detected", currentDrones[i].id, items[j].id, 0)>>
                ELSE IF Miss(i, j)
                THEN <<LogEntry("false-negative", currentDrones[i].id, items[j].id, 0)>>
                ELSE <<>>])
        fpEvents(i) ==
            IF i \in DOMAIN falsePositives
            THEN <<LogEntry("false-positive", currentDrones[i].id, fpItem(i).id, 0)>>
            ELSE <<>>
        events == ConcatAll([i \in 1..Len(currentDrones) |-> anomalyEvents(i) \o fpEvents(i)])
        flagged == [j \in 1..Len(items) |->
                        IF \E i \in 1..Len(currentDrones) : Hit(i, j)
                        THEN [items[j] EXCEPT !.detected = TRUE] ELSE items[j]]
        updatedItems ==
            flagged \o ConcatAll([i \in 1..Len(currentDrones) |->
                                    IF i \in DOMAIN falsePositives THEN <<fpItem(i)>> ELSE <<>>])
        changed == updatedItems # items
        newMisses == {missKey(p[1], p[2]) : p \in {q \in InRangePairs : Miss(q[1], q[2])}}
        agedLog == [k \in {q \in DOMAIN missLogAge : missLogAge[q].age + lapse <= 2} |->
                        [missLogAge[k] EXCEPT !.age = @ + lapse]]
        loggedMisses == {<<events[k].droneId, events[k].anomalyId>> :
                            k \in {n \in 1..Len(events) : events[n].kind = "false-negative"}}
    IN /\ Len(currentDrones) > 0
       /\ hits \subseteq InRangePairs
       /\ DOMAIN falsePositives \subseteq 1..Len(currentDrones)
       /\ falsePositiveCount + Cardinality(DOMAIN falsePositives) <= MaxFalsePositives
       /\ scenario' = IF changed THEN [scenario EXCEPT !.anomalies.items = updatedItems]
                      ELSE scenario
       /\ lastFalseNegativeRef' =
            [k \in DOMAIN aged \cup newMisses |-> IF k \in newMisses THEN 0 ELSE aged[k]]
       /\ falsePositiveCount' = falsePositiveCount + Cardinality(DOMAIN falsePositives)
       /\ missLogAge' =
            [k \in DOMAIN agedLog \cup loggedMisses |->
                IF k \notin loggedMisses THEN agedLog[k]
                ELSE [age |-> 0, gap |-> IF k \in DOMAIN agedLog THEN agedLog[k].age ELSE 3]]
       /\ IF Len(events) > 0
          THEN detectionLog' = appendLog(events, detectionLog)
          ELSE UNCHANGED detectionLog
       /\ lastOp' = "detect"
       /\ IF changed \/ Len(events) > 0
          THEN /\ EffectsPending
               /\ lastFrameRef' = FrameAfterFlush(scenario)
          ELSE UNCHANGED <<scenarioRef, dronesRef, lastFrameRef>>
       /\ UNCHANGED <<error, drones, selectedDroneIds, batteryWarningStateRef, droneIdCounter,
                      emergencyActive>>

(***************************************************************************)
(* The session                                                             *)
(***************************************************************************)
Init == GenIdle /\ SessionStart

\* Every selected drone has fewer than n waypoints queued.
QueuesBelow(n) ==
    \A i \in 1..Len(drones) : drones[i].id \in selectedDroneIds => Len(drones[i].waypoints) < n

FalsePositiveDraws ==
    UNION {[S -> FalsePositiveOffsets] : S \in SUBSET (1..Len(dronesRef))}

OperatorCommand ==
    \/ /\ droneIdCounter < MaxSpawns
       /\ \E modelId \in SpawnModelInputs, spawnPointId \in SpawnPointInputs :
                handleSpawnDrone(modelId, spawnPointId)
    \/ \E point \in WaypointInputs, append \in BOOLEAN :
            /\ append => QueuesBelow(MaxQueue)
            /\ handleSetWaypoint(point, append)
    \/ handleRTBImmediate
    \/ handleRTBAfterCompletion
    \/ \E id \in DroneIds, position \in DragInputs : handleDronePositionChange(id, position)
    \/ \E id \in DroneIds, speedKts \in SpeedInputs : handleDroneSpeedChange(id, speedKts)
    \/ \E ids \in SUBSET DroneIds : applySelection(ids)
    \/ \E params \in SessionParams : handleGenerate(params)
    \/ \E file \in LoadInputs : loadScenarioFile(file)
    \/ \E id \in ToggleInputs : handleToggleAnomaly(id)

Next ==
    \/ /\ commandCount < MaxCommands
       /\ OperatorCommand
       /\ commandCount' = commandCount + 1
       /\ UNCHANGED <<gvars, pvars, cvars, detectionCount>>
    \/ /\ \E dtIn \in DtValues, eager \in BOOLEAN : step(dtIn, eager)
       /\ UNCHANGED <<gvars, pvars, cvars, bvars>>
    \/ /\ detectionCount < MaxDetectionTicks
       /\ detectionCount' = detectionCount + 1
       /\ \E hits \in SUBSET InRangePairs,
             falsePositives \in FalsePositiveDraws, lapse \in LapseValues :
                detectionTick(hits, falsePositives, lapse)
       /\ UNCHANGED <<gvars, pvars, cvars, commandCount>>
    \/ /\ flushEffects
       /\ UNCHANGED <<gvars, pvars, cvars, bvars>>

Spec == Init /\ [][Next]_vars

(***************************************************************************)
(* The fleet session: two drones, longer queues, every operation that      *)
(* replaces the scenario; the detection interval is switched off           *)
(* (sensorsEnabled = false) and every frame's updater runs eagerly.        *)
(***************************************************************************)
FleetMaxSpawns == 2
FleetMaxCommands == 4
FleetMaxQueue == 2

FleetCommand ==
    \/ /\ droneIdCounter < FleetMaxSpawns
       /\ \E modelId \in SpawnModelInputs, spawnPointId \in SpawnPointInputs :
                handleSpawnDrone(modelId, spawnPointId)
    \/ \E point \in WaypointInputs, append \in BOOLEAN :
            /\ append => QueuesBelow(FleetMaxQueue)
            /\ handleSetWaypoint(point, append)
    \/ handleRTBAfterCompletion
    \/ \E id \in DroneIds, position \in DragInputs : handleDronePositionChange(id, position)
    \/ \E ids \in SUBSET DroneIds : applySelection(ids)
    \/ \E params \in SessionParams : handleGenerate(params)
    \/ \E params \in SessionParams, drawn \in RandomSeedInputs : handleRandomSeed(params, drawn)
    \/ \E id \in PresetInputs : applyPreset(id)
    \/ \E file \in LoadInputs : loadScenarioFile(file)

FleetNext ==
    \/ /\ commandCount < FleetMaxCommands
       /\ FleetCommand
       /\ commandCount' = commandCount + 1
       /\ UNCHANGED <<gvars, pvars, cvars, detectionCount>>
    \/ /\ \E dtIn \in DtValues : step(dtIn, TRUE)
       /\ UNCHANGED <<gvars, pvars, cvars, bvars>>
    \/ /\ flushEffects
       /\ UNCHANGED <<gvars, pvars, cvars, bvars>>

FleetSpec == Init /\ [][FleetNext]_vars


(***************************************************************************)
(* The sensor session: two drones that stay where they were spawned, the   *)
(* detection interval firing several times, generate and toggle.           *)
(***************************************************************************)
SensorMaxCommands == 4
SensorMaxTicks == 3

SensorCommand ==
    \/ /\ droneIdCounter < FleetMaxSpawns
       /\ \E modelId \in SpawnModelInputs, spawnPointId \in SpawnPointInputs :
                handleSpawnDrone(modelId, spawnPointId)
    \/ \E params \in SessionParams : handleGenerate(params)
    \/ \E id \in ToggleInputs : handleToggleAnomaly(id)

SensorNext ==
    \/ /\ commandCount < SensorMaxCommands
       /\ SensorCommand
       /\ commandCount' = commandCount + 1
       /\ UNCHANGED <<gvars, pvars, cvars, detectionCount>>
    \/ /\ detectionCount < SensorMaxTicks
       /\ detectionCount' = detectionCount + 1
       /\ \E hits \in SUBSET InRangePairs,
             falsePositives \in FalsePositiveDraws, lapse \in LapseValues :
                detectionTick(hits, falsePositives, lapse)
       /\ UNCHANGED <<gvars, pvars, cvars, commandCount>>
    \/ /\ flushEffects
       /\ UNCHANGED <<gvars, pvars, cvars, bvars>>

SensorSpec == Init /\ [][SensorNext]_vars

(***************************************************************************)
(* The long session: the log already holds nearly logLimit entries, the    *)
(* reports of a drone that a Generate has since removed; a second drone is *)
(* spawned and both loops go on appending.                                 *)
(***************************************************************************)
LogMaxCommands == 2
LogMaxTicks == 2
LogRoom == 2

\* The report with sequence number n of the earlier part of the session.
EarlierEntry(n) == LogEntry("false-positive", 1, <<"fp-earlier", n>>, 0)

\* n earlier reports, newest first.
EarlierLog(n) == [k \in 1..n |-> EarlierEntry(n + 1 - k)]

LogInit ==
    /\ GenIdle
    /\ \E room \in 0..LogRoom : SessionAt(EarlierLog(defaultSensorConfig.logLimit - room), 1)

LogCommand ==
    \/ /\ droneIdCounter < FleetMaxSpawns
       /\ \E modelId \in SpawnModelInputs, spawnPointId \in SpawnPointInputs :
                handleSpawnDrone(modelId, spawnPointId)
    \/ \E params \in SessionParams : handleGenerate(params)

LogNext ==
    \/ /\ commandCount < LogMaxCommands
       /\ LogCommand
       /\ commandCount' = commandCount + 1
       /\ UNCHANGED <<gvars, pvars, cvars, detectionCount>>
    \/ /\ \E dtIn \in DtValues, eager \in BOOLEAN : step(dtIn, eager)
       /\ UNCHANGED <<gvars, pvars, cvars, bvars>>
    \/ /\ detectionCount < LogMaxTicks
       /\ detectionCount' = detectionCount + 1
       /\ \E hits \in SUBSET InRangePairs,
             falsePositives \in FalsePositiveDraws, lapse \in LapseValues :
                detectionTick(hits, falsePositives, lapse)
       /\ UNCHANGED <<gvars, pvars, cvars, commandCount>>
    \/ /\ flushEffects
       /\ UNCHANGED <<gvars, pvars, cvars, bvars>>

LogSpec == LogInit /\ [][LogNext]_vars

(***************************************************************************)
(* The unattended return: the operator sets one drone up and then leaves   *)
(* it alone from the tick that sends it home until it has landed; the      *)
(* animation loop requests its next frame at the end of every frame, so    *)
(* frames keep coming.                                                     *)
(***************************************************************************)
ReturnMaxCommands == 3

ReturnCommand ==
    \/ /\ droneIdCounter < MaxSpawns
       /\ \E modelId \in SpawnModelInputs, spawnPointId \in SpawnPointInputs :
                handleSpawnDrone(modelId, spawnPointId)
    \/ \E point \in WaypointInputs : handleSetWaypoint(point, FALSE)
    \/ \E id \in DroneIds, speedKts \in SpeedInputs : handleDroneSpeedChange(id, speedKts)
    \/ \E id \in DroneIds, position \in DragInputs : handleDronePositionChange(id, position)

ReturnFrame ==
    /\ \E dtIn \in DtValues, eager \in BOOLEAN : step(dtIn, eager)
    /\ UNCHANGED <<gvars, pvars, cvars, bvars>>

ReturnNext ==
    \/ /\ commandCount < ReturnMaxCommands
       /\ emergencyActive = {}
       /\ ReturnCommand
       /\ commandCount' = commandCount + 1
       /\ UNCHANGED <<gvars, pvars, cvars, detectionCount>>
    \/ ReturnFrame
    \/ /\ flushEffects
       /\ UNCHANGED <<gvars, pvars, cvars, bvars>>

ReturnSpec == Init /\ [][ReturnNext]_vars /\ WF_vars(ReturnFrame)

(***************************************************************************)
(* The waypoint session: one drone, its queue, drags and frames.           *)
(***************************************************************************)
QueueMaxCommands == 5

QueueCommand ==
    \/ /\ droneIdCounter < MaxSpawns
       /\ \E modelId \in SpawnModelInputs, spawnPointId \in SpawnPointInputs :
                handleSpawnDrone(modelId, spawnPointId)
    \/ \E point \in WaypointInputs, append \in BOOLEAN :
            /\ append => QueuesBelow(FleetMaxQueue)
            /\ handleSetWaypoint(point, append)
    \/ \E id \in DroneIds, position \in DragInputs : handleDronePositionChange(id, position)
    \/ \E ids \in SUBSET DroneIds : applySelection(ids)

\* One animation frame; each frame requests the next one.
QueueFrame ==
    /\ \E dtIn \in DtValues : step(dtIn, TRUE)
    /\ UNCHANGED <<gvars, pvars, cvars, bvars>>

QueueNext ==
    \/ /\ commandCount < QueueMaxCommands
       /\ QueueCommand
       /\ commandCount' = commandCount + 1
       /\ UNCHANGED <<gvars, pvars, cvars, detectionCount>>
    \/ QueueFrame
    \/ /\ flushEffects
       /\ UNCHANGED <<gvars, pvars, cvars, bvars>>

QueueSpec == Init /\ [][QueueNext]_vars

(***************************************************************************)
(* Claims about the generator and the validator (checked under GenSpec)    *)
(***************************************************************************)
HasValidated == gValidated # None /\ gPayload # None

\* C5: two calls of generateSector with identical parameters, made at any
\* two moments, return scenarios whose JSON serializations are identical in
\* every field.
C5_GenerateDeterministic ==
    (gFirst # None /\ gSecond # None) => ToJSON(Get(gFirst)) = ToJSON(Get(gSecond))

SameAnomalies(a, b) ==
    /\ Len(a) = Len(b)
    /\ \A i \in 1..Len(a) :
        /\ a[i].id = b[i].id
        /\ a[i].type = b[i].type
        /\ a[i].position = b[i].position
        /\ a[i].detected = b[i].detected

\* C6: validateScenario(JSON.parse(JSON.stringify(generateSector(p)))) does
\* not throw and returns the same sector and the same anomalies (count per
\* type, ids, positions, detected flags), for every accepted parameter set,
\* the empty seed included.
C6_RoundTrip ==
    (HasValidated /\ gFirst # None /\ gPayload = Some(ToJSON(Get(gFirst)))) =>
        /\ Get(gValidated).ok
        /\ Get(Get(gValidated).scenario).sector = Get(gFirst).sector
        /\ SameAnomalies(Get(Get(gValidated).scenario).anomalies.items, Get(gFirst).anomalies.items)

\* The payload defects C7 lists, read off the payload alone.
VersionIsNot1(p) == ~(p.version.t = "number" /\ p.version.v = 1)
SeedIsMissing(p) == p.seed = None
SectorIsMissing(p) == p.sector = None
BoundsNotNumeric(p) ==
    /\ p.sector # None
    /\ \/ Get(p.sector).bounds = None
       \/ Get(Get(p.sector).bounds).widthMeters.t # "number"
       \/ Get(Get(p.sector).bounds).heightMeters.t # "number"
ConditionsMissing(p) == p.sector # None /\ Get(p.sector).conditions = None

Malformed(p) ==
    VersionIsNot1(p) \/ SeedIsMissing(p) \/ SectorIsMissing(p) \/ BoundsNotNumeric(p) \/ ConditionsMissing(p)

\* C7: validateScenario rejects (an error, no scenario) every payload whose
\* version is not 1, whose seed or sector is missing, whose bounds lack a
\* numeric widthMeters/heightMeters or whose conditions are missing; every
\* payload it accepts yields a scenario with version 1, and it accepts every
\* payload with none of these defects and a non-empty seed.
C7_RejectsMalformed ==
    HasValidated =>
        LET p == Get(gPayload)
            v == Get(gValidated)
        IN /\ Malformed(p) => (~v.ok /\ v.scenario = None /\ v.error # "")
           /\ v.ok => (v.scenario # None /\ Get(v.scenario).version = 1)
           /\ (~Malformed(p) /\ p.seed # Some("")) => v.ok

C7_Witness ==
    /\ HasValidated
    /\ ~Get(gValidated).ok
    /\ Get(gValidated).error = "Sector bounds are invalid"
    /\ ~VersionIsNot1(Get(gPayload))

\* The payload items that survive sanitizing: known type, finite position.
ValidPayloadItems(p) ==
    IF p.anomalies.items = None THEN {}
    ELSE {k \in 1..Len(Get(p.anomalies.items)) :
            /\ Get(p.anomalies.items)[k].type \in AnomalyTypes
            /\ NumberIsFinite(Get(p.anomalies.items)[k].position.x)
            /\ NumberIsFinite(Get(p.anomalies.items)[k].position.y)}

\* C9: validateScenario returns the payload's sanitized items only when
\* their number equals the total of the normalized config; in every other
\* case it returns generateAnomalies(sector, seed, config).  The returned
\* list always has the config total as its length.
C9_MismatchRegenerates ==
    (HasValidated /\ Get(gValidated).ok) =>
        LET p == Get(gPayload)
            sc == Get(Get(gValidated).scenario)
            total == totalAnomalyCount(sc.anomalies.config)
            kept == SanitizedItems(p.anomalies.items, sc.sector, sc.seed, sc.anomalies.config)
        IN /\ Len(sc.anomalies.items) = total
           /\ Len(kept) = Cardinality(ValidPayloadItems(p))
           /\ IF Cardinality(ValidPayloadItems(p)) = total
              THEN SameAnomalies(sc.anomalies.items, kept)
              ELSE sc.anomalies.items = generateAnomalies(sc.sector, sc.seed, sc.anomalies.config)

C9_Witness ==
    /\ HasValidated
    /\ Get(gValidated).ok
    /\ Get(gPayload).anomalies.items # None
    /\ Cardinality(ValidPayloadItems(Get(gPayload))) > 0
    /\ Cardinality(ValidPayloadItems(Get(gPayload))) < Len(Get(Get(gPayload).anomalies.items))
    /\ Get(Get(gValidated).scenario).anomalies.items = Get(gFirst).anomalies.items

NoItemInHub(sc) ==
    LET hub == droneHubFromBounds(sc.sector.bounds)
    IN hub.radius > 0 =>
        \A i \in 1..Len(sc.anomalies.items) :
            DistSq(sc.anomalies.items[i].position, hub.position) > hub.radius * hub.radius

\* C10: when the hub radius is > 0, no anomaly produced by generateSector or
\* returned by validateScenario lies inside the hub circle, the anomalies
\* placed by the fallback after 32 rejected samples included.
C10_HubExclusion ==
    /\ gFirst # None => NoItemInHub(Get(gFirst))
    /\ (HasValidated /\ Get(gValidated).ok) => NoItemInHub(Get(Get(gValidated).scenario))

\* A payload item put on the hub centre is re-sampled, and the sampler, its
\* 32 draws all rejected, places it by the fallback.
C10_Witness ==
    /\ HasValidated
    /\ Get(gValidated).ok
    /\ Get(gPayload).anomalies.items # None
    /\ LET sc == Get(Get(gValidated).scenario)
           hub == droneHubFromBounds(sc.sector.bounds)
           items == Get(Get(gPayload).anomalies.items)
       IN /\ hub.radius > 0
          /\ Len(items) = Len(sc.anomalies.items)
          /\ Len(items) > 0
          /\ items[1].position = [x |-> JsNumber(hub.position.x), y |-> JsNumber(hub.position.y)]
          /\ createAnomalyPositionSampler(sc.sector, hub, <<sc.seed, "-anomalies-sanitize">>, 0).fallback
          /\ createAnomalyPositionSampler(sc.sector, hub, <<sc.seed, "-anomalies">>, 0).fallback

(***************************************************************************)
(* Claims about the session (checked under Spec)                           *)
(***************************************************************************)
\* C1: in every kinematics tick in which a drone is not landed and its
\* battery after the drain is at most its emergency reserve, the record the
\* tick produces has status returning, the hub as target and an empty queue,
\* or, when it reached the hub in that tick, status landed with no target
\* and an empty queue; for every speed >= 0 and every dt >= 0.
C1_AutoRTB ==
    [][lastOp' = "step" =>
        \A i \in 1..Len(drones) :
            (/\ drones[i].status # "landed"
             /\ drones'[i].batteryMinutesRemaining <= drones'[i].emergencyReserveMinutes)
            => \/ /\ drones'[i].status = "returning"
                  /\ drones'[i].targetPosition = Some(currentHub.position)
                  /\ drones'[i].waypoints = <<>>
               \/ /\ drones'[i].status = "landed"
                  /\ drones'[i].targetPosition = None
                  /\ drones'[i].waypoints = <<>>]_vars

\* C2: once a tick has triggered emergency RTB for a drone, the drone is
\* returning in every later state until it has landed at the hub, whatever
\* ticks, setWaypoint, RTB-after-completion and speed commands follow.
C2_EmergencySticky ==
    \A i \in 1..Len(drones) :
        drones[i].id \in emergencyActive => drones[i].status = "returning"

BatteryInRange ==
    \A i \in 1..Len(drones) :
        /\ drones[i].batteryMinutesRemaining >= 0
        /\ drones[i].batteryPct >= 0
        /\ drones[i].batteryPct <= 100

BatteryNeverIncreases ==
    \A i \in 1..Len(drones), j \in 1..Len(drones') :
        drones[i].id = drones'[j].id =>
            drones'[j].batteryMinutesRemaining <= drones[i].batteryMinutesRemaining

\* C3: for every drone, across ticks and operator commands, the remaining
\* battery never increases and never goes below 0, and batteryPct stays
\* within [0, 100].
C3_BatteryMonotonic == []BatteryInRange /\ [][BatteryNeverIncreases]_vars

\* A drone that a tick found with an empty battery and still off the ground:
\* the drain of that tick was cut off at zero.
C3_Witness ==
    /\ lastOp = "step"
    /\ \E i \in 1..Len(drones), j \in 1..Len(dronesRef) :
        /\ dronesRef[j].id = drones[i].id
        /\ dronesRef[j].batteryMinutesRemaining = 0
        /\ dronesRef[j].status # "landed"
        /\ drones[i].batteryMinutesRemaining = 0

InsideBounds(p, bounds) ==
    /\ bounds.origin.x <= p.x /\ p.x <= bounds.origin.x + bounds.widthMeters
    /\ bounds.origin.y <= p.y /\ p.y <= bounds.origin.y + bounds.heightMeters

\* C4: in every reachable state, every drone of the roster and every anomaly
\* of the scenario lies within the current sector bounds.
C4_BoundsInvariant ==
    /\ \A i \in 1..Len(drones) : InsideBounds(drones[i].position, scenario.sector.bounds)
    /\ \A j \in 1..Len(scenario.anomalies.items) :
            InsideBounds(scenario.anomalies.items[j].position, scenario.sector.bounds)

\* C8: a load that fails, on the parse or in validateScenario, leaves the
\* scenario, the roster, the selection and the battery-warning table as they
\* were and sets the error; the loops go on with the same scenario and roster.
C8_FailedLoadKeepsState ==
    [][lastOp' = "loadFailed" =>
        /\ scenario' = scenario
        /\ drones' = drones
        /\ selectedDroneIds' = selectedDroneIds
        /\ batteryWarningStateRef' = batteryWarningStateRef
        /\ error' # None
        /\ scenarioRef' = scenario
        /\ dronesRef' = drones]_vars

\* A load rejected by validateScenario while a drone is in the roster,
\* selected and with a battery warning on record.
C8_Witness ==
    /\ lastOp = "loadFailed"
    /\ error = Some("Unsupported or missing scenario version")
    /\ Len(drones) > 0
    /\ selectedDroneIds # {}
    /\ \E id \in DOMAIN batteryWarningStateRef : batteryWarningStateRef[id].thresholds # {}

\* The log entries of a kind for a drone (and threshold).
EventsOf(log, kind, droneId, threshold) ==
    SelectSeq(log, LAMBDA e : e.kind = kind /\ e.droneId = droneId /\ e.threshold = threshold)

AtMostOneWarningEach ==
    \A id \in DOMAIN batteryWarningStateRef :
        /\ Len(EventsOf(detectionLog, "battery-emergency", id, 0)) <= 1
        /\ \A i \in 1..Len(batteryWarningThresholds) :
                Len(EventsOf(detectionLog, "battery-warning", id, batteryWarningThresholds[i])) <= 1

\* The tick in which the emergency flag of a drone goes up logs the event.
EmergencyLoggedWhenTriggered ==
    lastOp' = "step" =>
        \A i \in 1..Len(drones) :
            (/\ ~WarningStateOf(batteryWarningStateRef, drones[i].id).emergency
             /\ WarningStateOf(batteryWarningStateRef', drones[i].id).emergency)
            => /\ Len(EventsOf(detectionLog', "battery-emergency", drones[i].id, 0)) = 1
               /\ Len(EventsOf(detectionLog, "battery-emergency", drones[i].id, 0)) = 0

\* C11: between a drone's spawn and the next reset at most one battery
\* warning is logged per (drone, threshold) and at most one battery emergency
\* per drone, and the battery emergency is logged in the first tick in which
\* emergency RTB triggers for the drone.
C11_WarningOnce == []AtMostOneWarningEach /\ [][EmergencyLoggedWhenTriggered]_vars

(***************************************************************************)
(* Claims about the fleet session (checked under FleetSpec)                *)
(***************************************************************************)
ReplacesScenario(op) == op \in {"generate", "preset", "loadOk"}

C13_SetWaypointReplace ==
    [][lastOp' = "setWaypoint" =>
        /\ Len(drones') = Len(drones)
        /\ selectedDroneIds = {} => drones' = drones
        /\ \E point \in WaypointInputs :
            \A i \in 1..Len(drones) :
                IF drones[i].id \in selectedDroneIds
                THEN /\ drones'[i] =
                            [drones[i] EXCEPT
                                !.targetPosition = Some(clampToBounds(point, scenario.sector.bounds)),
                                !.waypoints = <<>>,
                                !.status = "enroute"]
                     /\ InsideBounds(Get(drones'[i].targetPosition), scenario.sector.bounds)
                ELSE drones'[i] = drones[i]]_vars

\* Two drones, the first on its way to an earlier waypoint and not selected,
\* the second re-targeted to a click outside the sector.
C13_Witness ==
    /\ lastOp = "setWaypoint"
    /\ Len(drones) = 2
    /\ selectedDroneIds = {drones[2].id}
    /\ drones[1].targetPosition = Some([x |-> 1250, y |-> 1250])
    /\ drones[2].targetPosition = Some([x |-> -2500, y |-> 0])
    /\ drones[2].status = "enroute"

\* The target of a drone followed by its queue.
Itinerary(drone) == drone.targetPosition \o drone.waypoints

\* C15: RTB after completion keeps a set target, keeps the queued waypoints
\* in order, appends the hub as the last point of target + queue unless a
\* point within 1 m of the hub is already there, and applied a second time
\* leaves target and queue as the first application left them.
C15_RTBAfterCompletion ==
    [][lastOp' = "rtbAfter" =>
        /\ Len(drones') = Len(drones)
        /\ \A i \in 1..Len(drones) :
            LET before == Itinerary(drones[i])
                hubQueued == \E k \in 1..Len(before) : DistSq(before[k], currentHub.position) = 0
            IN IF drones[i].id \in CommandIds
               THEN /\ drones[i].targetPosition # None
                        => drones'[i].targetPosition = drones[i].targetPosition
                    /\ Itinerary(drones'[i]) =
                            IF hubQueued THEN before ELSE Append(before, currentHub.position)
               ELSE drones'[i] = drones[i]
        /\ LET again == RTBAfterCompletionRoster(drones', CommandIds', currentHub')
           IN \A i \in 1..Len(drones') :
                /\ again[i].targetPosition = drones'[i].targetPosition
                /\ again[i].waypoints = drones'[i].waypoints]_vars

\* A drone with a target and a queued waypoint that got the hub queued last.
C15_Witness ==
    /\ lastOp = "rtbAfter"
    /\ \E i \in 1..Len(drones) :
        /\ drones[i].targetPosition = Some([x |-> 1250, y |-> 1250])
        /\ drones[i].waypoints = <<[x |-> -2500, y |-> 0], currentHub.position>>

(***************************************************************************)
(* Claims about the waypoint queue (checked under QueueSpec)               *)
(***************************************************************************)
AppendIsFifo ==
    lastOp' = "appendWaypoint" =>
        \E point \in WaypointInputs :
            LET p == clampToBounds(point, scenario.sector.bounds)
            IN \A i \in 1..Len(drones) :
                IF drones[i].id \notin selectedDroneIds THEN drones'[i] = drones[i]
                ELSE IF drones[i].targetPosition # None
                THEN /\ drones'[i].targetPosition = drones[i].targetPosition
                     /\ drones'[i].status = drones[i].status
                     /\ drones'[i].waypoints = Append(drones[i].waypoints, p)
                ELSE /\ drones'[i].targetPosition = Some(Head(Append(drones[i].waypoints, p)))
                     /\ drones'[i].waypoints = Tail(Append(drones[i].waypoints, p))
                     /\ drones'[i].status = "enroute"

\* A frame without auto-RTB leaves target + queue as it is or, on arrival at
\* its head, drops exactly the head.
ArrivalConsumesHead ==
    lastOp' = "step" =>
        \A i \in 1..Len(drones) :
            (drones[i].status = "landed"
                \/ drones'[i].batteryMinutesRemaining > drones'[i].emergencyReserveMinutes)
            => \/ Itinerary(drones'[i]) = Itinerary(drones[i])
               \/ /\ Len(Itinerary(drones[i])) > 0
                  /\ Itinerary(drones'[i]) = Tail(Itinerary(drones[i]))
                  /\ drones'[i].position = Head(Itinerary(drones[i]))

\* C14: an appended point goes behind every waypoint already queued; a drone
\* with a target keeps target and status, a drone without one takes the head
\* of queue + point as target and becomes enroute; without other commands and
\* without auto-RTB the drone reaches target and waypoints in the order they
\* were appended, one per arrival: every arrival is at the head of target +
\* queue and removes exactly that head.
C14_AppendFifo == [][AppendIsFifo /\ ArrivalConsumesHead]_vars

\* The frame in which a drone reaches the first of three appended points and
\* turns to the second, the third still queued.
C14_Witness ==
    /\ lastOp = "step"
    /\ Len(drones) = 1 /\ Len(dronesRef) = 1
    /\ dronesRef[1].targetPosition = Some([x |-> 1250, y |-> 1250])
    /\ dronesRef[1].waypoints = <<[x |-> -2500, y |-> 0], [x |-> 1250, y |-> 1250]>>
    /\ drones[1].position = [x |-> 1250, y |-> 1250]
    /\ drones[1].targetPosition = Some([x |-> -2500, y |-> 0])
    /\ drones[1].waypoints = <<[x |-> 1250, y |-> 1250]>>

(***************************************************************************)
(* Claims about the detection loop (checked under SensorSpec and Spec)     *)
(***************************************************************************)
\* What the step that leads to the next state put at the head of the log.
AppendedEntries == SubSeq(detectionLog', 1, Len(detectionLog') - Len(detectionLog))

DetectedIn(items, anomalyId) ==
    \E j \in 1..Len(items) : items[j].id = anomalyId /\ items[j].detected

\* C16: in one detection tick, whatever the number of drones in range, at
\* most one detected event is logged for an anomaly, and none for an anomaly
\* that is detected already.
C16_DetectedOncePerTick ==
    [][lastOp' = "detect" =>
        \A k \in 1..Len(AppendedEntries) :
            AppendedEntries[k].kind = "detected" =>
                /\ ~DetectedIn(scenario.anomalies.items, AppendedEntries[k].anomalyId)
                /\ \A n \in 1..Len(AppendedEntries) :
                        (/\ AppendedEntries[n].kind = "detected"
                         /\ AppendedEntries[n].anomalyId = AppendedEntries[k].anomalyId)
                        => n = k]_vars

\* No two logged misses of a (drone, anomaly) pair two check intervals or
\* less apart.
MissesAreSpaced == \A k \in DOMAIN missLogAge : missLogAge[k].gap > 2

MissesOfUndetectedOnly ==
    lastOp' = "detect" =>
        \A k \in 1..Len(AppendedEntries) :
            AppendedEntries[k].kind = "false-negative" =>
                /\ ~DetectedIn(scenario.anomalies.items, AppendedEntries[k].anomalyId)
                /\ \A n \in 1..(k - 1) :
                        ~(/\ AppendedEntries[n].kind = "detected"
                          /\ AppendedEntries[n].anomalyId = AppendedEntries[k].anomalyId)
                /\ \A n \in 1..Len(AppendedEntries) :
                        (/\ AppendedEntries[n].kind = "false-negative"
                         /\ AppendedEntries[n].droneId = AppendedEntries[k].droneId
                         /\ AppendedEntries[n].anomalyId = AppendedEntries[k].anomalyId)
                        => n = k

\* C17: any two false-negative events of a (drone, anomaly) pair are more
\* than 2 x checkIntervalMs apart, over any sequence of detection ticks, and
\* no false-negative event is logged for an anomaly that is detected already.
C17_MissRateLimit == []MissesAreSpaced /\ [][MissesOfUndetectedOnly]_vars

\* The same anomaly up to its detected flag.
SameAnomaly(a, b) == a.id = b.id /\ a.type = b.type /\ a.position = b.position

\* C18: every anomaly the detection loop creates is a false positive with
\* detected = true, comes after all the items there were, none of them
\* removed or reordered, and has exactly one false-positive log entry of the
\* same tick carrying its id and the id of the reporting drone.
C18_FalsePositiveAppended ==
    [][(lastOp' = "detect" /\ falsePositiveCount' > falsePositiveCount) =>
        LET old == scenario.anomalies.items
            new == scenario'.anomalies.items
        IN /\ Len(new) = Len(old) + (falsePositiveCount' - falsePositiveCount)
           /\ \A j \in 1..Len(old) : j <= Len(new) /\ SameAnomaly(new[j], old[j])
           /\ \A j \in (Len(old) + 1)..Len(new) :
                /\ new[j].type = "false-positive"
                /\ new[j].detected
                /\ \E k \in 1..Len(AppendedEntries) :
                    /\ AppendedEntries[k].kind = "false-positive"
                    /\ AppendedEntries[k].anomalyId = new[j].id
                    /\ AppendedEntries[k].droneId \in DroneIds
                    /\ \A n \in 1..Len(AppendedEntries) :
                            (/\ AppendedEntries[n].kind = "false-positive"
                             /\ AppendedEntries[n].anomalyId = new[j].id) => n = k]_vars

\* C20: after a reset no detection tick and no kinematics tick writes items
\* or drone records of the scenario or roster before the reset into the state
\* after it, however the reset, the timer callbacks and the refresh of
\* scenarioRef and dronesRef interleave: what a tick writes is the current
\* items with more of them detected and false positives of the current
\* sector behind them, and the current roster moved within the current
\* sector.
C20_NoStaleWrites ==
    [][/\ lastOp' = "detect" =>
            LET old == scenario.anomalies.items
                new == scenario'.anomalies.items
            IN /\ scenario'.sector = scenario.sector
               /\ Len(new) >= Len(old)
               /\ \A j \in 1..Len(old) :
                    /\ j <= Len(new)
                    /\ SameAnomaly(new[j], old[j])
                    /\ old[j].detected => new[j].detected
               /\ \A j \in (Len(old) + 1)..Len(new) :
                    /\ new[j].type = "false-positive"
                    /\ InsideBounds(new[j].position, scenario.sector.bounds)
       /\ lastOp' = "step" =>
            /\ Len(drones') = Len(drones)
            /\ \A i \in 1..Len(drones) :
                /\ drones'[i].id = drones[i].id
                /\ InsideBounds(drones'[i].position, scenario.sector.bounds)]_vars

(***************************************************************************)
(* Claims about the detection log (checked under LogSpec)                  *)
(***************************************************************************)
LogWithinLimit == Len(detectionLog) <= defaultSensorConfig.logLimit

\* The log after an append: m new entries, then the newest of the entries
\* there were, as many as the limit leaves room for.
NewestFirstAppend ==
    (\/ detectionLog' # detectionLog
     \/ lastOp' = "detect" /\ falsePositiveCount' > falsePositiveCount)
    => \E m \in 1..Len(detectionLog') :
        /\ detectionLog' =
                SubSeq(detectionLog', 1, m)
                    \o SubSeq(detectionLog, 1,
                              Min(Len(detectionLog), defaultSensorConfig.logLimit - m))
        /\ falsePositiveCount' > falsePositiveCount =>
                \E k \in 1..m : /\ detectionLog'[k].kind = "false-positive"
                                /\ detectionLog'[k].anomalyId = <<"fp", falsePositiveCount'>>

\* C19: after every append, from either loop, the log holds at most logLimit
\* entries, the entries of the latest append come before all earlier ones,
\* and the entries dropped for the cap are the oldest.
C19_LogCapped == []LogWithinLimit /\ [][NewestFirstAppend]_vars

\* A full log whose two newest entries come from one detection tick and
\* whose two oldest earlier reports are gone.
C19_Witness ==
    /\ lastOp = "detect"
    /\ Len(detectionLog) = defaultSensorConfig.logLimit
    /\ detectionLog[1].anomalyId[1] # "fp-earlier"
    /\ detectionLog[2].anomalyId[1] # "fp-earlier"
    /\ detectionLog[Len(detectionLog)] = EarlierEntry(3)

(***************************************************************************)
(* Claims about the numbers and statuses of the roster (checked under Spec)*)
(***************************************************************************)
\* The numeric fields of a DroneState that the model holds are whole numbers,
\* except returnMinutesRequired, which can hold the tag Infinity.
FiniteFields(drone) ==
    /\ drone.position.x \in Int
    /\ drone.position.y \in Int
    /\ drone.batteryPct \in Int
    /\ drone.batteryMinutesRemaining \in Int
    /\ NumberIsFinite(drone.returnMinutesRequired)
    /\ drone.emergencyReserveMinutes \in Int

\* C22: in every reachable state no numeric field of a drone of the roster
\* is NaN or infinite, also for a drone whose speed the operator set to 0.
C22_FiniteFields == \A i \in 1..Len(drones) : FiniteFields(drones[i])

\* C25: a drone that an immediate RTB has set returning toward the hub,
\* away from it, is returning after each following tick until the tick that
\* lands it, whatever its battery, as long as no other command is issued.
C25_OperatorRTBSticky ==
    [][(lastOp \in {"rtbImmediate", "step"} /\ lastOp' = "step") =>
        \A i \in 1..Len(drones) :
            (/\ drones[i].status = "returning"
             /\ drones[i].targetPosition = Some(currentHub.position)
             /\ drones[i].position # currentHub.position)
            => drones'[i].status \in {"returning", "landed"}]_vars

\* A landed drone is at rest at the hub of the current sector.
LandedAtRest ==
    \A i \in 1..Len(drones) :
        drones[i].status = "landed" =>
            /\ drones[i].targetPosition = None
            /\ drones[i].waypoints = <<>>
            /\ DistSq(drones[i].position, currentHub.position) = 0

LandedKeepsBattery ==
    lastOp' = "step" =>
        \A i \in 1..Len(drones) :
            drones[i].status = "landed" =>
                /\ drones'[i].batteryMinutesRemaining = drones[i].batteryMinutesRemaining
                /\ drones'[i].batteryPct = drones[i].batteryPct

\* C26: in every reachable state a landed drone has no target, an empty
\* queue and a position within 1 m of the current hub, and a tick leaves the
\* battery of a landed drone unchanged.
C26_LandedInvariant == []LandedAtRest /\ [][LandedKeepsBattery]_vars

\* A frame with dt > 0 has run on a drone that had landed with a partly
\* used battery.
C26_Witness ==
    /\ lastOp = "step"
    /\ lastFrameRef = "set"
    /\ Len(drones) = 1
    /\ Len(dronesRef) = 1
    /\ dronesRef[1].status = "landed"
    /\ drones[1].status = "landed"
    /\ drones[1].batteryMinutesRemaining > 0
    /\ drones[1].batteryMinutesRemaining < drones[1].batteryLifeMinutes

(***************************************************************************)
(* The arrival rule of the kinematics tick                                 *)
(***************************************************************************)
\* What the tick flies drone d along: the hub alone when the tick sends the
\* drone home (e is the record the tick produced), else target then queue.
FlownItinerary(d, e) ==
    IF d.status # "landed" /\ e.batteryMinutesRemaining <= e.emergencyReserveMinutes
    THEN <<currentHub.position>>
    ELSE d.targetPosition \o d.waypoints

\* speed * dt of the tick in whole metres.
TickReach(d, dtSeconds) == (d.speedKts * KnotsToMetresPerSecond * dtSeconds) \div SpeedScale

ArrivedAt(d, e, itinerary) ==
    /\ e.position = Head(itinerary)
    /\ IF Len(itinerary) > 1
       THEN /\ e.targetPosition = Some(itinerary[2])
            /\ e.waypoints = SubSeq(itinerary, 3, Len(itinerary))
       ELSE /\ e.targetPosition = None
            /\ e.waypoints = <<>>
            /\ e.status = IF DistSq(Head(itinerary), currentHub.position) = 0
                          THEN "landed" ELSE "idle"

\* The drone moved by reach metres (to the metre the model resolves) along
\* the line to the target and did not pass it.
MovedToward(d, e, target, reach) ==
    LET moved == Hypot(e.position.x - d.position.x, e.position.y - d.position.y)
    IN /\ moved <= reach
       /\ moved >= reach - 2
       /\ (target.x - e.position.x) * (target.x - d.position.x) >= 0
       /\ (target.y - e.position.y) * (target.y - d.position.y) >= 0
       /\ Abs(target.x - e.position.x) <= Abs(target.x - d.position.x)
       /\ Abs(target.y - e.position.y) <= Abs(target.y - d.position.y)

\* The rule for the drones picked by applies(d), in the tick this step is.
ArrivalRule(applies(_)) ==
    lastOp' = "step" =>
        \E dtIn \in DtValues :
            LET dtSeconds == IF lastFrameRef = "null" THEN 0 ELSE dtIn
            IN \A i \in 1..Len(drones) :
                LET d == drones[i]
                    e == drones'[i]
                    itinerary == FlownItinerary(d, e)
                    reach == TickReach(d, dtSeconds)
                IN (itinerary # <<>> /\ applies(d)) =>
                    IF reach * reach >= DistSq(Head(itinerary), d.position)
                    THEN ArrivedAt(d, e, itinerary)
                    ELSE MovedToward(d, e, Head(itinerary), reach)

AnySpeed(d) == TRUE
Moving(d) == d.speedKts > 0

StoppedKeepsCourse ==
    lastOp' = "step" =>
        \A i \in 1..Len(drones) :
            (drones[i].speedKts = 0 /\ drones[i].targetPosition # None) =>
                /\ drones'[i].position = drones[i].position
                /\ drones'[i].targetPosition = drones[i].targetPosition
                /\ drones'[i].waypoints = drones[i].waypoints

C27_DetectedSurvivesTicks ==
    [][lastOp' = "detect" =>
        \A i \in 1..Len(scenario.anomalies.items) :
            scenario.anomalies.items[i].detected =>
                DetectedIn(scenario'.anomalies.items, scenario.anomalies.items[i].id)]_vars

\* parseScenarioString(scenarioToJSON(sc))
SavedAndLoaded(sc) == validateScenario(PayloadOf(ToJSON(sc), "none"), 0)

\* C29: saving the session's scenario and loading the file gives a scenario
\* with the same anomaly ids, positions and detected flags, also after
\* detection ticks have marked anomalies and appended false positives
\* (checked under Spec).
C29_SaveLoadPreserves ==
    LET loaded == SavedAndLoaded(scenario)
    IN /\ loaded.ok
       /\ SameAnomalies(Get(loaded.scenario).anomalies.items, scenario.anomalies.items)

(***************************************************************************)
(* The unattended return (checked under ReturnSpec)                        *)
(***************************************************************************)
\* A tick has sent the drone home and it can move.
ReturnTriggered ==
    /\ Len(drones) = 1
    /\ drones[1].id \in emergencyActive
    /\ drones[1].speedKts > 0

LandedAtHub ==
    /\ Len(drones) = 1
    /\ drones[1].status = "landed"
    /\ drones[1].position = currentHub.position

StaysLanded ==
    lastOp' = "step" =>
        \A i \in 1..Len(drones) : drones[i].status = "landed" => drones'[i].status = "landed"

\* C30: once emergency RTB has triggered for a drone whose speed is > 0 and
\* frames with dt > 0 keep coming with no operator command, the drone
\* eventually is landed with its position at the hub, and every later tick
\* keeps it landed.
C30_AutoRTBCompletes == (ReturnTriggered ~> LandedAtHub) /\ [][StaysLanded]_vars

\* The drone was sent home by a tick, away from the hub, and has landed.
C30_Witness ==
    /\ LandedAtHub
    /\ lastOp = "step"
    /\ drones[1].speedKts > 0
    /\ WarningStateOf(batteryWarningStateRef, drones[1].id).emergency
    /\ drones[1].batteryMinutesRemaining < drones[1].emergencyReserveMinutes

(***************************************************************************)
(* The site spreading and the lane planner on their own: one input is      *)
(* drawn at the start and the function under study is applied to it.       *)
(***************************************************************************)
MaxGroup == 5

PlanBounds == {initialScenario.sector.bounds} \cup
              {generateSector(params, 0).sector.bounds : params \in SessionParams}

\* Corners, edge midpoints and the centre of the sector, in whole metres.
PlanBases(bounds) ==
    {[x |-> bounds.origin.x + dx, y |-> bounds.origin.y + dy] :
        dx \in {0, bounds.widthMeters \div 2, bounds.widthMeters},
        dy \in {0, bounds.heightMeters \div 2, bounds.heightMeters}}

\* count drones on one spot of the sector.
SpreadInputs ==
    UNION {{[op |-> "spread", bounds |-> bounds,
             points |-> [i \in 1..count |-> [drone |-> i, position |-> ToMillis(base)]]] :
                base \in PlanBases(bounds), count \in 2..MaxGroup} : bounds \in PlanBounds}

PlanExtents == {10000, 25000, 40000, 100000}
PlanSpacings == {10000, 20000}

\* Rectangular cells, in millimetres.
LaneInputs ==
    {[op |-> "lanes", spacing |-> spacing,
      polygon |-> << [x |-> 0, y |-> 0], [x |-> w, y |-> 0],
                     [x |-> w, y |-> h], [x |-> 0, y |-> h] >>] :
        w \in PlanExtents, h \in PlanExtents, spacing \in PlanSpacings}

PlanInit ==
    /\ gParams \in SessionParams
    /\ gClock = 0
    /\ gFirst = None
    /\ gSecond = None
    /\ gPayload = None
    /\ gValidated = None
    /\ pInput \in {Some(input) : input \in SpreadInputs \cup LaneInputs}
    /\ pOutput = None
    /\ SessionStart

PlanSpread ==
    /\ pOutput = None
    /\ Get(pInput).op = "spread"
    /\ pOutput' = Some(spreadCoincident(Get(pInput).points, Get(pInput).bounds))
    /\ UNCHANGED <<pInput, gvars, svars, cvars, bvars>>

PlanLanes ==
    /\ pOutput = None
    /\ Get(pInput).op = "lanes"
    /\ pOutput' = Some(buildLanes(Get(pInput).polygon, Get(pInput).spacing))
    /\ UNCHANGED <<pInput, gvars, svars, cvars, bvars>>

PlanNext == PlanSpread \/ PlanLanes

PlanSpec == PlanInit /\ [][PlanNext]_vars

\* C21: the sites spreadCoincident returns are pairwise distinct, also when
\* the drones sit together on an edge or a corner of the sector.
C21_SitesDistinct ==
    (IsSome(pInput) /\ Get(pInput).op = "spread" /\ IsSome(pOutput)) =>
        \A i, j \in 1..Len(Get(pOutput)) :
            i # j => Get(pOutput)[i].position # Get(pOutput)[j].position

\* C24: buildLanes sweeps along the axis that gives the fewest lanes: the
\* other axis never gives fewer.
C24_FewestLanes ==
    (IsSome(pInput) /\ Get(pInput).op = "lanes" /\ IsSome(pOutput)) =>
        Len(Get(pOutput).lanes) <=
            Len(LanesAlong(Get(pInput).polygon, Get(pInput).spacing,
                           ~Get(pOutput).sweepVertical))

(***************************************************************************)
(* The coverage session: two drones, the coverage panel, the animation     *)
(* frame, and the operations that replace the scenario.                    *)
(***************************************************************************)
CoverageMaxSpawns == 2
CoverageMaxCommands == 5

CoverageCommand ==
    \/ /\ droneIdCounter < CoverageMaxSpawns
       /\ \E modelId \in SpawnModelInputs, spawnPointId \in SpawnPointInputs :
                handleSpawnDrone(modelId, spawnPointId)
       /\ UNCHANGED cvars
    \/ /\ \E ids \in SUBSET DroneIds : applySelection(ids)
       /\ UNCHANGED cvars
    \/ /\ \E params \in SessionParams : handleGenerate(params)
       /\ UNCHANGED cvars
    \/ /\ \E id \in PresetInputs : applyPreset(id)
       /\ UNCHANGED cvars
    \/ \E cut \in CutInputs : handleRunVoronoi(cut)
    \/ handleClearVoronoi
    \/ \E cut \in CutInputs : handleStartCoverage(cut)

CoverageNext ==
    \/ /\ commandCount < CoverageMaxCommands
       /\ CoverageCommand
       /\ commandCount' = commandCount + 1
       /\ UNCHANGED <<gvars, pvars, detectionCount>>
    \/ /\ \E dtIn \in DtValues : step(dtIn, TRUE)
       /\ UNCHANGED <<gvars, pvars, cvars, bvars>>
    \/ /\ flushEffects
       /\ UNCHANGED <<gvars, pvars, cvars, bvars>>

CoverageSpec == Init /\ [][CoverageNext]_vars

\* C28: after a scenario reset every stored Voronoi cell and every stored
\* coverage plan refers to a drone of the current roster, so coverage is
\* never started from cells computed for the scenario before.
C28_PartitionFollowsRoster ==
    /\ \A c \in 1..Len(voronoiCells) : voronoiCells[c].droneId \in DroneIds
    /\ \A c \in 1..Len(coveragePlans) : coveragePlans[c].droneId \in DroneIds

====
